---- MODULE Spec2Model ----
(***************************************************************************)
(* Fare resolution engine of the Transport Fare Calculator (src/app.js).   *)
(*                                                                         *)
(* Text is modelled as a sequence of characters.  An ASCII character is    *)
(* the one-character string itself; any other character is the token       *)
(* "uXXXX" of its code point, e.g. "u6771","u4EAC" is the place written    *)
(* 東京.  Dates are the JavaScript Date objects the code builds with        *)
(* new Date(y, m, d): local midnights, represented by their day number     *)
(* (days since 1970-01-01, proleptic Gregorian calendar); getTime() is     *)
(* proportional to it (no daylight-saving shift is modelled).              *)
(***************************************************************************)
EXTENDS Integers, Sequences, FiniteSets, TLC

(***************************************************************************)
(* Characters and character classes                                        *)
(***************************************************************************)
Digit == <<"0","1","2","3","4","5","6","7","8","9">>
DigitSet == {Digit[i] : i \in 1..10}
DigitValOf == [c \in DigitSet |-> (CHOOSE i \in 1..10 : Digit[i] = c) - 1]
DigitVal(c) == DigitValOf[c]

UpperLetters ==
  <<"A","B","C","D","E","F","G","H","I","J","K","L","M",
    "N","O","P","Q","R","S","T","U","V","W","X","Y","Z">>
LowerLetters ==
  <<"a","b","c","d","e","f","g","h","i","j","k","l","m",
    "n","o","p","q","r","s","t","u","v","w","x","y","z">>

\* String.prototype.toLowerCase on one character
LowerOf ==
  [c \in {UpperLetters[i] : i \in 1..26} |->
     LowerLetters[CHOOSE i \in 1..26 : UpperLetters[i] = c]]
toLowerChar(c) == IF c \in DOMAIN LowerOf THEN LowerOf[c] ELSE c

\* the members of the regular-expression class \s that the model's texts use:
\* space, tab, U+00A0 no-break space, U+3000 ideographic space, U+FEFF
WhiteSpace == {" ", "TAB", "u00A0", "u3000", "uFEFF"}
\* [‐‑–—−] of norm
NormDashes == {"u2010", "u2011", "u2013", "u2014", "u2212"}
\* [‐‑–—―ー] of normHeaderKey
HeaderDashes == {"u2010", "u2011", "u2013", "u2014", "u2015", "u30FC"}
\* [・･] of normKey
MiddleDots == {"u30FB", "uFF65"}
\* [()（）\[\]【】] of normKey and normHeaderKey
Brackets == {"(", ")", "uFF08", "uFF09", "[", "]", "u3010", "u3011"}
\* [〜～~\-–—―] of parsePeriodRanges
RangeSeps == {"u301C", "uFF5E", "~", "-", "u2013", "u2014", "u2015"}

(***************************************************************************)
(* Generic text helpers: the String methods the code uses                 *)
(***************************************************************************)
Remove(s, cls) == SelectSeq(s, LAMBDA c : c \notin cls)
MapChars(s, f(_)) == [i \in 1..Len(s) |-> f(s[i])]
toLowerCase(s) == MapChars(s, toLowerChar)

\* s.slice(i-1, j): characters i..j (empty when j < i)
Slice(s, i, j) == IF j < i THEN <<>> ELSE SubSeq(s, i, j)

\* String.prototype.trim
trimTo(s, keep) ==
  IF keep = {} THEN <<>>
  ELSE SubSeq(s, CHOOSE i \in keep : \A j \in keep : i <= j,
                 CHOOSE i \in keep : \A j \in keep : j <= i)
trim(s) == trimTo(s, {i \in 1..Len(s) : s[i] \notin WhiteSpace})

\* String.prototype.includes
Includes(s, sub) ==
  \E i \in 0..(Len(s) - Len(sub)) : \A j \in 1..Len(sub) : s[i + j] = sub[j]

\* s.endsWith(suf)
EndsWith(s, suf) ==
  Len(suf) <= Len(s) /\ SubSeq(s, Len(s) - Len(suf) + 1, Len(s)) = suf

\* s.split(sep) for a one-character separator
RECURSIVE Split(_, _)
SplitAt(s, sep, k) == <<Slice(s, 1, k - 1)>> \o Split(Slice(s, k + 1, Len(s)), sep)
Split(s, sep) ==
  IF \A i \in 1..Len(s) : s[i] # sep THEN <<s>>
  ELSE SplitAt(s, sep, CHOOSE i \in 1..Len(s) :
                         s[i] = sep /\ \A j \in 1..(i - 1) : s[j] # sep)

IsDigits(s, lo, hi) ==
  Len(s) \in lo..hi /\ \A i \in 1..Len(s) : s[i] \in DigitSet

\* Number(s) for a text of decimal digits
RECURSIVE Number(_)
Number(s) ==
  IF s = <<>> THEN 0
  ELSE 10 * Number(SubSeq(s, 1, Len(s) - 1)) + DigitVal(s[Len(s)])

\* String(n) for n >= 0
RECURSIVE String(_)
String(n) ==
  IF n < 10 THEN <<Digit[n + 1]>> ELSE String(n \div 10) \o <<Digit[(n % 10) + 1]>>

\* String(n).padStart(2, "0")
padStart2(n) == IF n < 10 THEN <<"0">> \o String(n) ELSE String(n)

(***************************************************************************)
(* src/app.js 39-63: text normalisers                                      *)
(***************************************************************************)
stripBOM(s) == IF s # <<>> /\ s[1] = "uFEFF" THEN Tail(s) ELSE s

norm(s) ==
  toLowerCase(
    MapChars(Remove(trim(s), WhiteSpace),
             LAMBDA c : IF c \in NormDashes THEN "-" ELSE c))

normKey(s) == Remove(Remove(norm(s), MiddleDots), Brackets)

normHeaderKey(k) ==
  toLowerCase(
    MapChars(Remove(Remove(stripBOM(k), WhiteSpace), Brackets),
             LAMBDA c : IF c \in HeaderDashes THEN "-" ELSE c))

(***************************************************************************)
(* src/app.js 65-103: header normaliser                                    *)
(***************************************************************************)
\* the canonical field names, as the JavaScript strings the code returns
K_from       == <<"f","r","o","m">>
K_to         == <<"t","o">>
K_fare       == <<"f","a","r","e">>
K_priceType  == <<"p","r","i","c","e","T","y","p","e">>
K_wholeFrom  == <<"w","h","o","l","e","F","r","o","m">>
K_wholeTo    == <<"w","h","o","l","e","T","o">>
K_validFrom  == <<"v","a","l","i","d","F","r","o","m">>
K_validTo    == <<"v","a","l","i","d","T","o">>
K_validRange == <<"v","a","l","i","d","R","a","n","g","e">>
K_alias      == <<"a","l","i","a","s">>
K_canonical  == <<"c","a","n","o","n","i","c","a","l">>
K_rule       == <<"r","u","l","e">>

\* the if-chain of canonicalKey (lines 70-90), in its order:
\* <<synonyms, field returned>>
KeyRules ==
  <<
     \* line 70: 出発地 発地 出発 from origin 出発場所 発駅 乗車地
     <<
       << <<"u51FA","u767A","u5730">>,
          <<"u767A","u5730">>,
          <<"u51FA","u767A">>,
          <<"f","r","o","m">>,
          <<"o","r","i","g","i","n">>,
          <<"u51FA","u767A","u5834","u6240">>,
          <<"u767A","u99C5">>,
          <<"u4E57","u8ECA","u5730">> >>
       , K_from >>,
     \* line 71: 到着地 着地 到着 to destination 到着場所 着駅 降車地
     <<
       << <<"u5230","u7740","u5730">>,
          <<"u7740","u5730">>,
          <<"u5230","u7740">>,
          <<"t","o">>,
          <<"d","e","s","t","i","n","a","t","i","o","n">>,
          <<"u5230","u7740","u5834","u6240">>,
          <<"u7740","u99C5">>,
          <<"u964D","u8ECA","u5730">> >>
       , K_to >>,
     \* line 72: 運賃 金額 料金 fare price 運賃額
     <<
       << <<"u904B","u8CC3">>,
          <<"u91D1","u984D">>,
          <<"u6599","u91D1">>,
          <<"f","a","r","e">>,
          <<"p","r","i","c","e">>,
          <<"u904B","u8CC3","u984D">> >>
       , K_fare >>,
     \* line 73: 価格タイプ 価格ﾀｲﾌﾟ シーズン season type 区分
     <<
       << <<"u4FA1","u683C","u30BF","u30A4","u30D7">>,
          <<"u4FA1","u683C","uFF80","uFF72","uFF8C","uFF9F">>,
          <<"u30B7","u30FC","u30BA","u30F3">>,
          <<"s","e","a","s","o","n">>,
          <<"t","y","p","e">>,
          <<"u533A","u5206">> >>
       , K_priceType >>,
     \* line 75: 搭乗期間開始 搭乗開始 boardfrom validfrom 搭乗期間from
     <<
       << <<"u642D","u4E57","u671F","u9593","u958B","u59CB">>,
          <<"u642D","u4E57","u958B","u59CB">>,
          <<"b","o","a","r","d","f","r","o","m">>,
          <<"v","a","l","i","d","f","r","o","m">>,
          <<"u642D","u4E57","u671F","u9593","f","r","o","m">> >>
       , K_wholeFrom >>,
     \* line 76: 搭乗期間終了 搭乗終了 boardto validto 搭乗期間to
     <<
       << <<"u642D","u4E57","u671F","u9593","u7D42","u4E86">>,
          <<"u642D","u4E57","u7D42","u4E86">>,
          <<"b","o","a","r","d","t","o">>,
          <<"v","a","l","i","d","t","o">>,
          <<"u642D","u4E57","u671F","u9593","t","o">> >>
       , K_wholeTo >>,
     \* line 79: 価格適用期間開始 適用開始 periodfrom farefrom 価格適用開始
     <<
       << <<"u4FA1","u683C","u9069","u7528","u671F","u9593","u958B","u59CB">>,
          <<"u9069","u7528","u958B","u59CB">>,
          <<"p","e","r","i","o","d","f","r","o","m">>,
          <<"f","a","r","e","f","r","o","m">>,
          <<"u4FA1","u683C","u9069","u7528","u958B","u59CB">> >>
       , K_validFrom >>,
     \* line 80: 価格適用期間終了 適用終了 periodto fareto 価格適用終了
     <<
       << <<"u4FA1","u683C","u9069","u7528","u671F","u9593","u7D42","u4E86">>,
          <<"u9069","u7528","u7D42","u4E86">>,
          <<"p","e","r","i","o","d","t","o">>,
          <<"f","a","r","e","t","o">>,
          <<"u4FA1","u683C","u9069","u7528","u7D42","u4E86">> >>
       , K_validTo >>,
     \* line 83: 価格適用期間 適用期間 validrange period range
     <<
       << <<"u4FA1","u683C","u9069","u7528","u671F","u9593">>,
          <<"u9069","u7528","u671F","u9593">>,
          <<"v","a","l","i","d","r","a","n","g","e">>,
          <<"p","e","r","i","o","d">>,
          <<"r","a","n","g","e">> >>
       , K_validRange >>,
     \* line 86: alias 別名 入力 候補 表記ゆれ 表記揺れ synonym
     <<
       << <<"a","l","i","a","s">>,
          <<"u5225","u540D">>,
          <<"u5165","u529B">>,
          <<"u5019","u88DC">>,
          <<"u8868","u8A18","u3086","u308C">>,
          <<"u8868","u8A18","u63FA","u308C">>,
          <<"s","y","n","o","n","y","m">> >>
       , K_alias >>,
     \* line 87: canonical 正規 正規名 統一名 正式名称
     <<
       << <<"c","a","n","o","n","i","c","a","l">>,
          <<"u6B63","u898F">>,
          <<"u6B63","u898F","u540D">>,
          <<"u7D71","u4E00","u540D">>,
          <<"u6B63","u5F0F","u540D","u79F0">> >>
       , K_canonical >>,
     \* line 90: 根拠 備考 rule 注記 参照
     <<
       << <<"u6839","u62E0">>,
          <<"u5099","u8003">>,
          <<"r","u","l","e">>,
          <<"u6CE8","u8A18">>,
          <<"u53C2","u7167">> >>
       , K_rule >>
  >>

\* the synonyms of a rule as has() compares them: normHeaderKey(x) of each
normalizedSynonyms(arr) == [i \in 1..Len(arr) |-> normHeaderKey(arr[i])]

\* the rules with their synonyms normalised (a constant: the synonyms are
\* literals of the code)
NormalizedRules ==
  [i \in 1..Len(KeyRules) |-> <<normalizedSynonyms(KeyRules[i][1]), KeyRules[i][2]>>]

\* has(arr) of canonicalKey: arr.some(x => nk.includes(normHeaderKey(x))),
\* for the normalised synonyms arr
has(nk, arr) == \E i \in 1..Len(arr) : Includes(nk, arr[i])

\* the field of the last rule from rule i on that matches
lastRule(nk, i) ==
  IF \E j \in i..Len(NormalizedRules) : has(nk, NormalizedRules[j][1])
  THEN NormalizedRules[CHOOSE j \in i..Len(NormalizedRules) :
                         /\ has(nk, NormalizedRules[j][1])
                         /\ \A k \in (j + 1)..Len(NormalizedRules) :
                              ~has(nk, NormalizedRules[k][1])][2]
  ELSE nk

\* the field of the first rule from rule i on that matches, the normalised
\* label if none does
RECURSIVE firstRule(_, _)
firstRule(nk, i) ==
  IF i > Len(NormalizedRules) THEN nk
  ELSE IF has(nk, NormalizedRules[i][1]) THEN NormalizedRules[i][2]
  ELSE firstRule(nk, i + 1)

canonicalKey(k) == firstRule(normHeaderKey(k), 1)

\* A raw row (the object parseCSV / parseTSV builds) is the sequence of its
\* <<column label, value>> entries in column order (Object.entries).
\* A normalised row is the function from the keys present to their values.
\* out[ck] = val without the test of line 100
putEntryLast(out, ck, val) ==
  [x \in (DOMAIN out) \cup {ck} |-> IF x = ck THEN val ELSE out[x]]

\* line 100: if (!(ck in out) || (out[ck] === "" && val !== "")) out[ck] = val
putEntry(out, ck, val) ==
  IF ck \notin DOMAIN out \/ (out[ck] = <<>> /\ val # <<>>)
  THEN [x \in (DOMAIN out) \cup {ck} |-> IF x = ck THEN val ELSE out[x]]
  ELSE out

RECURSIVE normalizeFrom(_, _)
normalizeFrom(entries, out) ==
  IF entries = <<>> THEN out
  ELSE normalizeFrom(Tail(entries),
         putEntry(out, canonicalKey(Head(entries)[1]), trim(Head(entries)[2])))

normalizeRowKeys(row) == normalizeFrom(row, [x \in {} |-> <<>>])

\* rr.field ?? dflt
Field(rr, key, dflt) == IF key \in DOMAIN rr THEN rr[key] ELSE dflt

(***************************************************************************)
(* JavaScript Date: local midnights as day numbers.                        *)
(* Intermediate values are handed on as operator parameters, one step per  *)
(* definition.                                                             *)
(***************************************************************************)
null == [isNull |-> TRUE]
mkDate(t) == [time |-> t]
isDate(d) == d # null

\* days since 1970-01-01 of the civil date y-m-d (m in 1..12)
DaysOfEra(era, yoe, doy) ==
  era * 146097 + yoe * 365 + yoe \div 4 - yoe \div 100 + doy - 719468
DaysOfYear(yy, mp, d) ==
  DaysOfEra(yy \div 400, yy % 400, (153 * mp + 2) \div 5 + d - 1)
DaysFromCivil(y, m, d) ==
  DaysOfYear(IF m <= 2 THEN y - 1 ELSE y, IF m > 2 THEN m - 3 ELSE m + 9, d)

\* <<year, month index 0..11, day of month>> of a day number
CivilOfMonth(y0, doy, mp) ==
  << y0 + (IF mp >= 10 THEN 1 ELSE 0),
     IF mp < 10 THEN mp + 2 ELSE mp - 10,
     doy - (153 * mp + 2) \div 5 + 1 >>
CivilOfDoy(y0, doy) == CivilOfMonth(y0, doy, (5 * doy + 2) \div 153)
CivilOfYoe(era, doe, yoe) ==
  CivilOfDoy(yoe + era * 400, doe - (365 * yoe + yoe \div 4 - yoe \div 100))
CivilOfDoe(era, doe) ==
  CivilOfYoe(era, doe,
             (doe - doe \div 1460 + doe \div 36524 - doe \div 146096) \div 365)
CivilOfShifted(z) == CivilOfDoe(z \div 146097, z % 146097)
CivilFromDays(t) == CivilOfShifted(t + 719468)

\* the first day of month number mm (counted from January of year 0)
monthStart(mm) == DaysFromCivil(mm \div 12, (mm % 12) + 1, 1)

\* new Date(y, monthIndex, d): years 0..99 mean 1900..1999, month and day
\* overflow into the following months and years
newDate(y, monthIndex, d) ==
  mkDate(monthStart((IF y \in 0..99 THEN 1900 + y ELSE y) * 12 + monthIndex) + d - 1)

getTime(d)     == d.time
getFullYear(d) == CivilFromDays(d.time)[1]
getMonth(d)    == CivilFromDays(d.time)[2]

\* new Date().getFullYear(): the calendar year in which the table is built
CurrentYear == 2025

(***************************************************************************)
(* src/app.js 108-136: parseDateLoose, ymd                                 *)
(***************************************************************************)
\* the groups of /^(\d{4})SEP(\d{1,2})SEP(\d{1,2})$/ are the parts p of the
\* text split at SEP
isYMD(p) ==
  Len(p) = 3 /\ IsDigits(p[1], 4, 4) /\ IsDigits(p[2], 1, 2) /\ IsDigits(p[3], 1, 2)

dateOfYMD(p) == newDate(Number(p[1]), Number(p[2]) - 1, Number(p[3]))

\* t.match(/^(\d{1,2})[\/\-](\d{1,2})$/): the position of the separator
MatchMD(t) ==
  {k \in 1..Len(t) : /\ t[k] \in {"/", "-"}
                     /\ IsDigits(Slice(t, 1, k - 1), 1, 2)
                     /\ IsDigits(Slice(t, k + 1, Len(t)), 1, 2)}

dateOfMD(t, k) ==
  newDate(CurrentYear, Number(Slice(t, 1, k - 1)) - 1, Number(Slice(t, k + 1, Len(t))))

\* parseDateLoose after const t = s.trim()
parseTrimmedDate(t) ==
  IF t = <<>> THEN null
  ELSE IF isYMD(Split(t, "-")) THEN dateOfYMD(Split(t, "-"))
  ELSE IF isYMD(Split(t, "/")) THEN dateOfYMD(Split(t, "/"))
  ELSE IF MatchMD(t) # {} THEN dateOfMD(t, CHOOSE k \in MatchMD(t) : TRUE)
  ELSE null

parseDateLoose(s) == parseTrimmedDate(trim(s))

ymdOfCivil(c) ==
  String(c[1]) \o <<"-">> \o padStart2(c[2] + 1) \o <<"-">> \o padStart2(c[3])

ymd(d) == IF ~isDate(d) THEN <<>> ELSE ymdOfCivil(CivilFromDays(d.time))

(***************************************************************************)
(* src/app.js 210-226: parsePeriodRanges                                   *)
(***************************************************************************)
\* x matches ^\d{4}[\/-]\d{1,2}[\/-]\d{1,2}$
IsDateText(x) ==
  \E i \in 5..Len(x), j \in 7..Len(x) :
     /\ i < j
     /\ x[i] \in {"/", "-"} /\ x[j] \in {"/", "-"}
     /\ IsDigits(Slice(x, 1, i - 1), 4, 4)
     /\ IsDigits(Slice(x, i + 1, j - 1), 1, 2)
     /\ IsDigits(Slice(x, j + 1, Len(x)), 1, 2)

\* the first position >= i of p that holds no white space (Len(p)+1 if none)
firstOf(rest, dflt) ==
  IF rest = {} THEN dflt ELSE CHOOSE k \in rest : \A j \in rest : k <= j
SkipSpace(p, i) == firstOf({k \in i..Len(p) : p[k] \notin WhiteSpace}, Len(p) + 1)

\* where the second date starts when the first one ends at e1: after the
\* white space, the separator and the white space that follow
secondStart(p, e1) == SkipSpace(p, SkipSpace(p, e1 + 1) + 1)

\* the regular expression of parsePeriodRanges matches p with its first date
\* at p[c[1]..c[2]] and a second date of c[3]+1 characters
rangeOk(p, c) ==
  /\ c[2] <= Len(p)
  /\ IsDateText(Slice(p, c[1], c[2]))
  /\ SkipSpace(p, c[2] + 1) <= Len(p)
  /\ p[SkipSpace(p, c[2] + 1)] \in RangeSeps
  /\ secondStart(p, c[2]) + c[3] <= Len(p)
  /\ IsDateText(Slice(p, secondStart(p, c[2]), secondStart(p, c[2]) + c[3]))

\* the matches <<s, e1, s2, e2>> of the (unanchored) regular expression in p
RangeMatches(p) ==
  { <<c[1], c[2], secondStart(p, c[2]), secondStart(p, c[2]) + c[3]>> :
      c \in {c \in {<<s, s + a, b>> : s \in 1..Len(p), a \in 7..9, b \in 7..9} :
               rangeOk(p, c)} }

matchGroups(p, m) == <<Slice(p, m[1], m[2]), Slice(p, m[3], m[4])>>

\* the leftmost match, its last group as long as possible
firstMatch(p, M) ==
  IF M = {} THEN <<>>
  ELSE matchGroups(p, CHOOSE m \in M : \A n \in M :
                        m[1] < n[1] \/ (m[1] = n[1] /\ m[4] >= n[4]))

\* p.match(...): <<m[1], m[2]>>, or <<>> when there is no match
RangeMatch(p) == firstMatch(p, RangeMatches(p))

rangeOfDates(a, b) ==
  IF isDate(a) /\ isDate(b) THEN <<[from |-> a, to |-> b]>> ELSE <<>>

rangeOfMatch(m) ==
  IF m = <<>> THEN <<>> ELSE rangeOfDates(parseDateLoose(m[1]), parseDateLoose(m[2]))

RECURSIVE rangesOfParts(_)
rangesOfParts(parts) ==
  IF parts = <<>> THEN <<>>
  ELSE rangeOfMatch(RangeMatch(Head(parts))) \o rangesOfParts(Tail(parts))

\* t.split("/").map(p => p.trim()).filter(Boolean)
trimmedParts(raw) ==
  SelectSeq([i \in 1..Len(raw) |-> trim(raw[i])], LAMBDA p : p # <<>>)

parsePeriodRanges(periodStr) ==
  IF trim(periodStr) = <<>> THEN <<>>
  ELSE rangesOfParts(trimmedParts(Split(trim(periodStr), "/")))

(***************************************************************************)
(* src/app.js 715-716: the fare amount of a row                            *)
(***************************************************************************)
\* the longest prefix of decimal digits
DigitPrefix(s) ==
  Slice(s, 1, firstOf({i \in 1..Len(s) : s[i] \notin DigitSet}, Len(s) + 1) - 1)

\* parseInt of a text of digits and minus signs, NaN replaced by 0
intOfDigits(neg, dig) ==
  IF dig = <<>> THEN 0 ELSE IF neg THEN 0 - Number(dig) ELSE Number(dig)
intOfSigned(s, neg) == intOfDigits(neg, DigitPrefix(IF neg THEN Tail(s) ELSE s))
intOrZero(s) == intOfSigned(s, s # <<>> /\ s[1] = "-")

\* parseInt(text.replace(/[^0-9-]/g,""), 10), 0 when that is not finite
fareOf(text) == intOrZero(SelectSeq(text, LAMBDA c : c \in DigitSet \cup {"-"}))

(***************************************************************************)
(* JavaScript Map: the sequence of its <<key, value>> entries in insertion *)
(* order, keys distinct                                                    *)
(***************************************************************************)
MapHas(m, k) == \E i \in 1..Len(m) : m[i][1] = k
MapGet(m, k) == m[CHOOSE i \in 1..Len(m) : m[i][1] = k][2]
MapSet(m, k, v) ==
  IF MapHas(m, k)
  THEN [i \in 1..Len(m) |-> IF m[i][1] = k THEN <<k, v>> ELSE m[i]]
  ELSE Append(m, <<k, v>>)

\* Array.prototype.sort for a comparator that is a strict weak order, with
\* before(a, b) standing for cmp(a, b) < 0: the sort is stable, so an element
\* comes after those that sort before it and those equal to it that precede it
Sort(arr, before(_, _)) ==
  LET pos(i) == 1 + Cardinality({j \in 1..Len(arr) :
                      \/ before(arr[j], arr[i])
                      \/ (j < i /\ ~before(arr[i], arr[j]))})
  IN  [k \in 1..Len(arr) |-> arr[CHOOSE i \in 1..Len(arr) : pos(i) = k]]

(***************************************************************************)
(* a.localeCompare(b, "ja") on the characters the place names of the       *)
(* model use: primary order of the letters, then lower case before upper   *)
(***************************************************************************)
\* space and punctuation, digits, Latin letters, then Han in the order of
\* JIS X 0208: 羽 沖 京 空 港 成 田 都 東 那 縄 覇
Collation ==
  <<" ", "u3000", "-", "(", ")", "u30FB", "|">> \o Digit \o LowerLetters \o
  <<"u7FBD", "u6C96", "u4EAC", "u7A7A", "u6E2F", "u6210", "u7530", "u90FD",
    "u6771", "u90A3", "u7E04", "u8987">>

RankOf ==
  [c \in {Collation[i] : i \in 1..Len(Collation)} |->
     CHOOSE i \in 1..Len(Collation) : Collation[i] = c]
Rank(c) == RankOf[toLowerChar(c)]
CaseRank(c) == IF toLowerChar(c) = c THEN 0 ELSE 1

\* the first position where a and b differ under key(_) (0 if none)
FirstDiff(a, b, key(_)) ==
  firstOf({i \in 1..(IF Len(a) < Len(b) THEN Len(a) ELSE Len(b)) :
             key(a[i]) # key(b[i])}, 0)

\* p, q: the first difference of letters, of case
beforeAt(a, b, p, q) ==
  IF p # 0 THEN Rank(a[p]) < Rank(b[p])
  ELSE IF Len(a) # Len(b) THEN Len(a) < Len(b)
  ELSE q # 0 /\ CaseRank(a[q]) < CaseRank(b[q])

\* a.localeCompare(b, "ja") < 0
localeBefore(a, b) ==
  beforeAt(a, b, FirstDiff(a, b, Rank), FirstDiff(a, b, CaseRank))

(***************************************************************************)
(* src/app.js 276-308: alias handling                                      *)
(***************************************************************************)
\* const common: 羽田 -> 東京, 成田 -> 東京, 那覇 -> 沖縄
CommonAliases ==
  << << <<"u7FBD", "u7530">>, <<"u6771", "u4EAC">> >>,
     << <<"u6210", "u7530">>, <<"u6771", "u4EAC">> >>,
     << <<"u90A3", "u8987">>, <<"u6C96", "u7E04">> >> >>

\* the loop of lines 278-280
RECURSIVE aliasSelf(_, _)
aliasSelf(places, m) ==
  IF places = <<>> THEN m
  ELSE aliasSelf(Tail(places), MapSet(m, normKey(Head(places)), Head(places)))

\* [p.replace(/(都|道|府|県)$/,""), p.replace(/空港$/,"")].filter(v => v && v !== p)
placeVariants(p) ==
  SelectSeq(
    << IF p # <<>> /\ p[Len(p)] \in {"u90FD", "u9053", "u5E9C", "u770C"}
       THEN Slice(p, 1, Len(p) - 1) ELSE p,
       IF EndsWith(p, <<"u7A7A", "u6E2F">>) THEN Slice(p, 1, Len(p) - 2) ELSE p >>,
    LAMBDA v : v # <<>> /\ v # p)

\* m.set(k, v) without the test of m.has(k)
MapSetAlways(m, k, v) == MapSet(m, k, v)

\* if (!m.has(k)) m.set(k, v)
MapSetIfAbsent(m, k, v) == IF MapHas(m, k) THEN m ELSE MapSet(m, k, v)

RECURSIVE aliasAddMissing(_, _, _)
aliasAddMissing(vs, p, m) ==
  IF vs = <<>> THEN m
  ELSE aliasAddMissing(Tail(vs), p, MapSetIfAbsent(m, normKey(Head(vs)), p))

\* the loop of lines 282-291
RECURSIVE aliasVariants(_, _)
aliasVariants(places, m) ==
  IF places = <<>> THEN m
  ELSE aliasVariants(Tail(places),
         aliasAddMissing(placeVariants(Head(places)), Head(places), m))

\* the loop of lines 298-300
RECURSIVE aliasCommon(_, _, _)
aliasCommon(common, places, m) ==
  IF common = <<>> THEN m
  ELSE aliasCommon(Tail(common), places,
         IF \E i \in 1..Len(places) : places[i] = Head(common)[2]
         THEN MapSetIfAbsent(m, normKey(Head(common)[1]), Head(common)[2])
         ELSE m)

buildAliasDefaultsFromPlaces(places) ==
  aliasCommon(CommonAliases, places,
    aliasVariants(places, aliasSelf(places, <<>>)))

\* DB.aliasToCanon.get(k) || name.trim()
aliasOrSelf(a, name, k) ==
  IF k = <<>> THEN <<>>
  ELSE IF MapHas(a, k) /\ MapGet(a, k) # <<>> THEN MapGet(a, k)
  ELSE trim(name)

\* resolvePlace, reading the alias table a
resolvePlaceIn(a, name) == aliasOrSelf(a, name, normKey(name))

(***************************************************************************)
(* src/app.js 313-359: core search                                         *)
(***************************************************************************)
\* inRange without its upper comparison
inRangeFrom(d, a, b) == getTime(d) >= getTime(a)

inRange(d, a, b) == getTime(d) >= getTime(a) /\ getTime(d) <= getTime(b)

\* ピーク
Peak == <<"u30D4", "u30FC", "u30AF">>
\* 通常
Standard == <<"u901A", "u5E38">>

windowLen(r) == getTime(r.validTo) - getTime(r.validFrom)
peakRank(r) == IF r.priceType = Peak THEN 0 ELSE 1

\* a comparator that orders by fare alone
bestByFare(a, b) == a.fare < b.fare

\* the comparator of pickBest returns a negative number
bestBefore(a, b) ==
  IF windowLen(a) # windowLen(b) THEN windowLen(a) < windowLen(b)
  ELSE IF peakRank(a) # peakRank(b) THEN peakRank(a) < peakRank(b)
  ELSE a.fare < b.fare

\* cands.sort(...); return cands[0]
firstSorted(cands) == IF cands = <<>> THEN null ELSE Sort(cands, bestBefore)[1]

pickBest(rows, date) ==
  firstSorted(SelectSeq(rows, LAMBDA r :
                isDate(r.validFrom) /\ isDate(r.validTo)
                /\ inRange(date, r.validFrom, r.validTo)))

Arrow == <<"u2192">>
RouteSep == <<"|", "|">>

\* DB.routeMap.get(key) || []
routeList(rm, key) == IF MapHas(rm, key) THEN MapGet(rm, key) ELSE <<>>

\* findFare taking the reverse entry first
findResultReverseFirst(f, t, hasAnyRoute, bestF, bestR) ==
  IF bestR # null
  THEN [hit |-> TRUE, row |-> bestR, from |-> f, to |-> t,
        tried |-> <<f \o Arrow \o t, t \o Arrow \o f>>,
        hasAnyRoute |-> hasAnyRoute, usedReverse |-> TRUE]
  ELSE IF bestF # null
  THEN [hit |-> TRUE, row |-> bestF, from |-> f, to |-> t,
        tried |-> <<f \o Arrow \o t>>,
        hasAnyRoute |-> hasAnyRoute, usedReverse |-> FALSE]
  ELSE [hit |-> FALSE, row |-> null, from |-> f, to |-> t,
        tried |-> <<f \o Arrow \o t, t \o Arrow \o f>>,
        hasAnyRoute |-> hasAnyRoute]

\* the three returns of findFare (lines 347-358)
findResult(f, t, hasAnyRoute, bestF, bestR) ==
  IF bestF # null
  THEN [hit |-> TRUE, row |-> bestF, from |-> f, to |-> t,
        tried |-> <<f \o Arrow \o t>>,
        hasAnyRoute |-> hasAnyRoute, usedReverse |-> FALSE]
  ELSE IF bestR # null
  THEN [hit |-> TRUE, row |-> bestR, from |-> f, to |-> t,
        tried |-> <<f \o Arrow \o t, t \o Arrow \o f>>,
        hasAnyRoute |-> hasAnyRoute, usedReverse |-> TRUE]
  ELSE [hit |-> FALSE, row |-> null, from |-> f, to |-> t,
        tried |-> <<f \o Arrow \o t, t \o Arrow \o f>>,
        hasAnyRoute |-> hasAnyRoute]

\* findFare with hasAnyRoute taken from the forward entry alone
findInListsForward(date, f, t, listFT, listTF) ==
  findResult(f, t, Len(listFT) > 0, pickBest(listFT, date), pickBest(listTF, date))

findInLists(date, f, t, listFT, listTF) ==
  findResult(f, t, Len(listFT) > 0 \/ Len(listTF) > 0,
             pickBest(listFT, date), pickBest(listTF, date))

findResolved(rm, date, f, t) ==
  findInLists(date, f, t,
              routeList(rm, normKey(f) \o RouteSep \o normKey(t)),
              routeList(rm, normKey(t) \o RouteSep \o normKey(f)))

\* findFare, reading the alias table a and the route index rm
findFareIn(a, rm, date, from, to) ==
  findResolved(rm, date, resolvePlaceIn(a, from), resolvePlaceIn(a, to))

(***************************************************************************)
(* src/app.js 660-696: year alignment of a period with the boarding window *)
(***************************************************************************)
\* x.setFullYear(year + plus) on a copy of the date: same month and day of
\* month, the day overflowing into March for a 29 February
shiftCivil(c, plus) == mkDate(monthStart((c[1] + plus) * 12 + c[2]) + c[3] - 1)
shiftYear(d, plus) == shiftCivil(CivilFromDays(d.time), plus)

maxDate(a, b) == IF getTime(a) >= getTime(b) THEN a ELSE b
minDate(a, b) == IF getTime(a) <= getTime(b) THEN a ELSE b

\* the clamp without the test of line 691
clampedAlways(vf, vt) == [from |-> vf, to |-> vt]

\* lines 691-692
clamped(vf, vt) == IF getTime(vf) > getTime(vt) THEN null ELSE [from |-> vf, to |-> vt]
\* lines 689-690
clampRange(from, to, wholeFrom, wholeTo) ==
  clamped(maxDate(from, wholeFrom), minDate(to, wholeTo))

\* the shift of lines 679, 680 without its test of the month
shiftEarlyAnyMonth(d, startY, startM) ==
  IF getFullYear(d) = startY THEN shiftYear(d, 1) ELSE d

\* lines 679, 680
shiftEarly(d, startY, startM) ==
  IF getFullYear(d) = startY /\ getMonth(d) < startM THEN shiftYear(d, 1) ELSE d

\* lines 683-684 without the test of line 682
shiftAgainAlways(from, to, wholeFrom, wholeTo) ==
  clampRange(shiftYear(from, 1), shiftYear(to, 1), wholeFrom, wholeTo)

\* lines 682-685, then the clamp
shiftAgain(from, to, wholeFrom, wholeTo) ==
  IF getTime(to) < getTime(wholeFrom)
  THEN clampRange(shiftYear(from, 1), shiftYear(to, 1), wholeFrom, wholeTo)
  ELSE clampRange(from, to, wholeFrom, wholeTo)

alignCrossing(pFrom, pTo, wholeFrom, wholeTo, startY, startM) ==
  shiftAgain(shiftEarly(pFrom, startY, startM), shiftEarly(pTo, startY, startM),
             wholeFrom, wholeTo)

\* the result {from, to}, or null
alignToWholeRange(pFrom, pTo, wholeFrom, wholeTo) ==
  IF ~isDate(pFrom) \/ ~isDate(pTo) THEN null
  ELSE IF isDate(wholeFrom) /\ isDate(wholeTo)
  THEN IF getFullYear(wholeTo) > getFullYear(wholeFrom)
       THEN alignCrossing(pFrom, pTo, wholeFrom, wholeTo,
                          getFullYear(wholeFrom), getMonth(wholeFrom))
       ELSE clampRange(pFrom, pTo, wholeFrom, wholeTo)
  ELSE [from |-> pFrom, to |-> pTo]

(***************************************************************************)
(* src/app.js 615-629, 698-806: the table and its build                    *)
(***************************************************************************)
\* the object DB after resetDB() (meta.updatedAt, a wall-clock stamp, and the
\* load log are left out)
EmptyDB ==
  [faresRows |-> <<>>, routeMap |-> <<>>, places |-> <<>>,
   aliasToCanon |-> <<>>,
   meta |-> [source |-> "", sourceUrl |-> "", fares |-> 0, routes |-> 0,
             places |-> 0, rawRows |-> 0]]

\* a build that goes on from the records and places of the active table
buildStartKeep(db) == [fares |-> db.faresRows, placesSet |-> db.places, seen |-> {}]

\* const fares = [], placesSet = new Set(), seen = new Set() (lines 701-703):
\* what the build starts from, whatever table db is active
buildStart(db) == [fares |-> <<>>, placesSet |-> <<>>, seen |-> {}]

\* keyOf of line 705
keyOf(from, to, ptype, fromD, toD) ==
  from \o RouteSep \o to \o RouteSep \o ptype \o RouteSep \o ymd(fromD)
       \o RouteSep \o ymd(toD)

\* Set.prototype.add on a Set kept as the sequence of its members
SetAdd(s, x) == IF \E i \in 1..Len(s) : s[i] = x THEN s ELSE Append(s, x)

\* lines 725-727
explicitPeriod(vf, vt) ==
  IF isDate(vf) /\ isDate(vt) THEN <<[from |-> vf, to |-> vt]>> ELSE <<>>

\* lines 735-737
withFallback(periods, wholeFrom, wholeTo) ==
  IF periods = <<>> /\ isDate(wholeFrom) /\ isDate(wholeTo)
  THEN <<[from |-> wholeFrom, to |-> wholeTo]>>
  ELSE periods

\* the range column read whatever the explicit pair gave
withRangesAlways(periods, rr) ==
  periods \o parsePeriodRanges(Field(rr, K_validRange, <<>>))

\* lines 730-732
withRanges(periods, rr) ==
  IF periods = <<>> THEN parsePeriodRanges(Field(rr, K_validRange, <<>>)) ELSE periods

\* the periods of a normalised row (lines 722-737)
periodsOf(rr, wholeFrom, wholeTo) ==
  withFallback(
    withRanges(explicitPeriod(parseDateLoose(Field(rr, K_validFrom, <<>>)),
                              parseDateLoose(Field(rr, K_validTo, <<>>))), rr),
    wholeFrom, wholeTo)

\* (text || "通常")
orStandard(pt) == IF pt = <<>> THEN Standard ELSE pt

\* what the records of one row share (lines 710-716, 754)
rowBase(rr, sourceName) ==
  [from |-> trim(Field(rr, K_from, <<>>)),
   to |-> trim(Field(rr, K_to, <<>>)),
   priceType |-> orStandard(trim(Field(rr, K_priceType, <<>>))),
   fare |-> fareOf(Field(rr, K_fare, <<"0">>)),
   source |-> sourceName]

\* lines 747-758 without the test of line 744
addAlways(acc, base, aligned, uniq) ==
  [fares |-> Append(acc.fares,
     [from |-> base.from, to |-> base.to, priceType |-> base.priceType,
      fare |-> base.fare, validFrom |-> aligned.from,
      validTo |-> aligned.to, source |-> base.source]),
   placesSet |-> SetAdd(SetAdd(acc.placesSet, base.from), base.to),
   seen |-> acc.seen \cup {uniq}]

\* lines 744-758
addUnique(acc, base, aligned, uniq) ==
  IF uniq \in acc.seen THEN acc
  ELSE [fares |-> Append(acc.fares,
           [from |-> base.from, to |-> base.to, priceType |-> base.priceType,
            fare |-> base.fare, validFrom |-> aligned.from,
            validTo |-> aligned.to, source |-> base.source]),
        placesSet |-> SetAdd(SetAdd(acc.placesSet, base.from), base.to),
        seen |-> acc.seen \cup {uniq}]

\* lines 741-743
addAligned(acc, base, aligned) ==
  IF aligned = null THEN acc
  ELSE addUnique(acc, base, aligned,
                 keyOf(base.from, base.to, base.priceType, aligned.from, aligned.to))

\* the loop over the periods of one row (lines 739-759)
RECURSIVE addPeriods(_, _, _, _, _)
addPeriods(acc, base, periods, wholeFrom, wholeTo) ==
  IF periods = <<>> THEN acc
  ELSE addPeriods(
         addAligned(acc, base,
           alignToWholeRange(Head(periods).from, Head(periods).to, wholeFrom, wholeTo)),
         base, Tail(periods), wholeFrom, wholeTo)

addParsedRow(acc, rr, sourceName, wholeFrom, wholeTo) ==
  addPeriods(acc, rowBase(rr, sourceName), periodsOf(rr, wholeFrom, wholeTo),
             wholeFrom, wholeTo)

\* one pass of the loop over the fare rows, for the normalised row rr
addRow(acc, rr, sourceName) ==
  IF trim(Field(rr, K_from, <<>>)) = <<>> \/ trim(Field(rr, K_to, <<>>)) = <<>>
  THEN acc
  ELSE addParsedRow(acc, rr, sourceName,
                    parseDateLoose(Field(rr, K_wholeFrom, <<>>)),
                    parseDateLoose(Field(rr, K_wholeTo, <<>>)))

\* the loop over the fare rows (lines 707-760)
RECURSIVE addRows(_, _, _)
addRows(acc, fareRows, sourceName) ==
  IF fareRows = <<>> THEN acc
  ELSE addRows(addRow(acc, normalizeRowKeys(Head(fareRows)), sourceName),
               Tail(fareRows), sourceName)

\* lines 768-771
mergeAlias(m, alias, canon) ==
  IF alias = <<>> \/ canon = <<>> THEN m ELSE MapSet(m, normKey(alias), canon)

mergeAliasRow(m, aa) ==
  mergeAlias(m, trim(Field(aa, K_alias, <<>>)), trim(Field(aa, K_canonical, <<>>)))

\* the merge of the external alias rows (lines 766-772)
RECURSIVE mergeAliases(_, _)
mergeAliases(m, aliasRows) ==
  IF aliasRows = <<>> THEN m
  ELSE mergeAliases(mergeAliasRow(m, normalizeRowKeys(Head(aliasRows))),
                    Tail(aliasRows))

routeKey(row) == normKey(row.from) \o RouteSep \o normKey(row.to)

\* map.set(k, [row]): the list of the key started again with each row
pushRouteAlone(map, k, row) == MapSet(map, k, <<row>>)

\* lines 778-779
pushRoute(map, k, row) == MapSet(map, k, Append(routeList(map, k), row))

\* the grouping loop of lines 775-780
RECURSIVE groupRoutes(_, _)
groupRoutes(map, fares) ==
  IF fares = <<>> THEN map
  ELSE groupRoutes(pushRoute(map, routeKey(Head(fares)), Head(fares)), Tail(fares))

\* the comparator of line 782 returns a negative number
routeBefore(a, b) ==
  IF getTime(a.validFrom) # getTime(b.validFrom)
  THEN getTime(a.validFrom) < getTime(b.validFrom)
  ELSE IF getTime(a.validTo) # getTime(b.validTo)
  THEN getTime(a.validTo) < getTime(b.validTo)
  ELSE a.fare < b.fare

\* the index with its lists left in row order
sortRoutesNone(map) == map

\* lines 781-783
sortRoutes(map) == [i \in 1..Len(map) |-> <<map[i][1], Sort(map[i][2], routeBefore)>>]

\* lines 785-797
assemble(fares, places, map, alias, sourceName, sourceUrl, rawRows) ==
  [faresRows |-> fares, routeMap |-> map, places |-> places,
   aliasToCanon |-> alias,
   meta |-> [source |-> sourceName, sourceUrl |-> sourceUrl,
             fares |-> Len(fares), routes |-> Len(map),
             places |-> Len(places), rawRows |-> rawRows]]

\* lines 762-772
withAliases(fares, places, map, sourceName, sourceUrl, rawRows, aliasRows) ==
  assemble(fares, places, map,
           mergeAliases(buildAliasDefaultsFromPlaces(places), aliasRows),
           sourceName, sourceUrl, rawRows)

\* lines 762, 775-783
tableOf(acc, sourceName, sourceUrl, rawRows, aliasRows) ==
  withAliases(acc.fares, Sort(acc.placesSet, localeBefore),
              sortRoutes(groupRoutes(<<>>, acc.fares)),
              sourceName, sourceUrl, rawRows, aliasRows)

\* the table DB after buildDBFromRows(fareRows, sourceName, sourceUrl, aliasRows),
\* called while the table db is active
buildDBFromRows(db, fareRows, sourceName, sourceUrl, aliasRows) ==
  tableOf(addRows(buildStart(db), fareRows, sourceName),
          sourceName, sourceUrl, Len(fareRows), aliasRows)

\* n.from && n.to && (n.fare !== undefined) for the normalised first row n
shapeOk(n) ==
  Field(n, K_from, <<>>) # <<>> /\ Field(n, K_to, <<>>) # <<>> /\ K_fare \in DOMAIN n

\* hasFareShape(rows).ok (lines 228-233)
hasFareShape(rows) == Len(rows) > 0 /\ shapeOk(normalizeRowKeys(rows[1]))

(***************************************************************************)
(* The data the environment can supply: tables as parseCSV / parseTSV      *)
(* return them (every row of a table has the columns of its header line),  *)
(* and itinerary legs as parseItineraryLines or the form returns them.     *)
(***************************************************************************)
\* rows per fare table, rows per alias table, legs of an itinerary
MaxRows == 2
MaxAliasRows == 1
MaxLegs == 1
\* loads between two moments without a load in flight: on the pages at
\* large, and on the page where loads are started while others wait
MaxLoads == 1
MaxOverlap == 2

\* column labels: 出発地 到着地 運賃 価格タイプ 搭乗期間開始 搭乗期間終了
\* 価格適用期間開始 価格適用期間終了 価格適用期間 別名 正規名
L_from       == <<"u51FA","u767A","u5730">>
L_to         == <<"u5230","u7740","u5730">>
L_fare       == <<"u904B","u8CC3">>
L_priceType  == <<"u4FA1","u683C","u30BF","u30A4","u30D7">>
L_wholeFrom  == <<"u642D","u4E57","u671F","u9593","u958B","u59CB">>
L_wholeTo    == <<"u642D","u4E57","u671F","u9593","u7D42","u4E86">>
L_validFrom  == <<"u4FA1","u683C","u9069","u7528","u671F","u9593","u958B","u59CB">>
L_validTo    == <<"u4FA1","u683C","u9069","u7528","u671F","u9593","u7D42","u4E86">>
L_validRange == <<"u4FA1","u683C","u9069","u7528","u671F","u9593">>
L_alias      == <<"u5225","u540D">>
L_canonical  == <<"u6B63","u898F","u540D">>

\* the row of a table with header labels hdr and cell values vals
Row(hdr, vals) == [i \in 1..Len(hdr) |-> <<hdr[i], vals[i]>>]

\* the text YYYY-MM-DD
iso(y, m, d) == String(y) \o <<"-">> \o padStart2(m) \o <<"-">> \o padStart2(d)
\* the text a〜b
span(a, b) == a \o <<"u301C">> \o b

\* place names
P_Tokyo    == <<"T","o","k","y","o">>
P_TOKYO    == <<"T","O","K","Y","O">>
P_Okinawa  == <<"O","k","i","n","a","w","a">>
P_Haneda   == <<"H","a","n","e","d","a">>
P_Naha     == <<"N","a","h","a">>
P_Osaka    == <<"O","s","a","k","a">>
P_Sapporo  == <<"S","a","p","p","o","r","o">>

\* all tables of 1..n rows over a pool of rows
SeqsUpTo(pool, n) == UNION {[1..k -> pool] : k \in 1..n}

\* a leg as parseItineraryLines and the form build it
Leg(d, from, to) == [date |-> d, from |-> from, to |-> to]

RouteHeader == <<L_from, L_to, L_fare, L_priceType, L_validFrom, L_validTo>>
\* a fare row with an explicit period in June 2025
RouteRow(from, to, fare, ptype, d1, d2) ==
  Row(RouteHeader, <<from, to, String(fare), ptype, iso(2025, 6, d1), iso(2025, 6, d2)>>)

\* priceType 早割
Early == <<"u65E9", "u5272">>

\* ---- windows: one route in both directions, nested windows --------------
WindowRows ==
  { RouteRow(P_Tokyo, P_Okinawa, 12000, <<>>, 1, 30),
    RouteRow(P_Tokyo, P_Okinawa, 9000, <<>>, 14, 20),
    RouteRow(P_Okinawa, P_Tokyo, 8000, <<>>, 14, 18) }
WindowFileRows == { RouteRow(P_Okinawa, P_Tokyo, 7000, Peak, 1, 30) }
WindowLegs ==
  { Leg(newDate(2025, 5, 14), P_Tokyo, P_Okinawa),
    Leg(newDate(2025, 6, 15), P_Tokyo, P_Okinawa),
    Leg(newDate(2025, 5, 14), P_Osaka, P_Sapporo) }

\* ---- peaks: windows of one length, price types and fares differ ---------
PeakRows ==
  { RouteRow(P_Tokyo, P_Okinawa, 15000, Peak, 1, 30),
    RouteRow(P_Tokyo, P_Okinawa, 15000, <<>>, 1, 30),
    RouteRow(P_Tokyo, P_Okinawa, 11000, Early, 1, 30) }
PeakFileRows == { RouteRow(P_Tokyo, P_Okinawa, 15000, Peak, 1, 30) }
PeakLegs ==
  { Leg(newDate(2025, 5, 16), P_Tokyo, P_Okinawa),
    Leg(newDate(2025, 5, 16), P_Okinawa, P_Tokyo) }

\* ---- dupes: rows that agree on route, price type and period ------------
DupeRows ==
  { RouteRow(P_Tokyo, P_Okinawa, 12000, <<>>, 1, 30),
    RouteRow(P_Tokyo, P_Okinawa, 13000, <<>>, 1, 30),
    RouteRow(P_Tokyo, P_Okinawa, 500, Standard, 1, 30) }
DupeFileRows == { RouteRow(P_Tokyo, P_Okinawa, 12000, <<>>, 1, 30) }
DupeLegs == { Leg(newDate(2025, 5, 16), P_Tokyo, P_Okinawa) }

\* ---- collide: spellings of one place -----------------------------------
AliasHeader == <<L_from, L_to, L_fare, L_wholeFrom, L_wholeTo>>
AliasRow(from, to, fare) ==
  Row(AliasHeader, <<from, to, String(fare), iso(2025, 6, 1), iso(2025, 6, 30)>>)
CollideRows ==
  { AliasRow(P_Tokyo, P_Okinawa, 100),
    AliasRow(P_TOKYO, P_Okinawa, 200) }
CollideFileRows == { AliasRow(P_Tokyo, P_Okinawa, 100) }
CollideLegs ==
  { Leg(newDate(2025, 5, 15), P_Tokyo, P_Okinawa),
    Leg(newDate(2025, 5, 15), P_TOKYO, P_Okinawa) }

\* ---- sheet: an external alias sheet -------------------------------------
SheetFareRows ==
  { AliasRow(P_Tokyo, P_Okinawa, 12000),
    AliasRow(P_Tokyo, P_Naha, 400) }
SheetFileRows == { AliasRow(P_Tokyo, P_Okinawa, 12000) }
AliasSheetHeader == <<L_alias, L_canonical>>
SheetRows ==
  { Row(AliasSheetHeader, <<P_Haneda, P_Tokyo>>),
    Row(AliasSheetHeader, <<P_Okinawa, P_Naha>>) }
SheetLegs ==
  { Leg(newDate(2025, 5, 15), P_Haneda, P_Okinawa),
    Leg(newDate(2025, 5, 15), P_Tokyo, P_Okinawa) }

\* ---- periods: boarding windows, explicit periods and range texts --------
PeriodHeader ==
  <<L_from, L_to, L_fare, L_wholeFrom, L_wholeTo, L_validFrom, L_validTo, L_validRange>>
PeriodRows ==
  { \* a season crossing the year, January written with the start year
    Row(PeriodHeader, <<P_Tokyo, P_Okinawa, String(100),
                        iso(2025, 10, 26), iso(2026, 3, 28), <<>>, <<>>,
                        span(iso(2025, 1, 5), iso(2025, 1, 20)) \o <<" ","/"," ">>
                          \o span(iso(2025, 11, 1), iso(2025, 11, 30))>>),
    \* no boarding window, explicit period written end first
    Row(PeriodHeader, <<P_Tokyo, P_Okinawa, String(200),
                        <<>>, <<>>, iso(2025, 6, 30), iso(2025, 6, 1), <<>>>>),
    \* no boarding window, range segment written end first
    Row(PeriodHeader, <<P_Tokyo, P_Okinawa, String(300),
                        <<>>, <<>>, <<>>, <<>>,
                        span(iso(2025, 6, 20), iso(2025, 6, 10))>>) }
PeriodFileRows ==
  { \* a period outside its boarding window
    Row(PeriodHeader, <<P_Tokyo, P_Okinawa, String(400),
                        iso(2025, 6, 1), iso(2025, 6, 30),
                        iso(2025, 7, 1), iso(2025, 7, 10), <<>>>>) }
PeriodLegs ==
  { Leg(newDate(2025, 5, 15), P_Tokyo, P_Okinawa),
    Leg(newDate(2026, 0, 10), P_Tokyo, P_Okinawa) }

\* ---- literal: the canonical field names used as column labels -----------
LiteralHeader == <<K_from, K_to, K_fare, K_priceType, K_validFrom, K_validTo>>
LiteralRows ==
  { Row(LiteralHeader, <<P_Tokyo, P_Okinawa, String(12000),
                         <<"S","t","a","n","d","a","r","d">>,
                         iso(2025, 6, 1), iso(2025, 6, 30)>>) }
LiteralSheetHeader == <<K_alias, K_canonical>>
LiteralSheetRows == { Row(LiteralSheetHeader, <<P_Haneda, P_Tokyo>>) }
LiteralLegs ==
  { Leg(newDate(2025, 5, 15), P_Haneda, P_Okinawa),
    Leg(newDate(2025, 5, 15), P_Tokyo, P_Okinawa) }

\* ---- bare: a page without the place dropdowns, no file to choose ---------
BareRows == { RouteRow(P_Tokyo, P_Okinawa, 12000, <<>>, 1, 30) }
BareLegs == { Leg(newDate(2025, 5, 15), P_Tokyo, P_Okinawa) }

\* ---- overlap: the server's file and the user's file hold one row each,
\* ---- with different fares; loads are started while others wait ------------
OverlapRows == { RouteRow(P_Tokyo, P_Okinawa, 12000, <<>>, 1, 30) }
OverlapFileRows == { RouteRow(P_Tokyo, P_Okinawa, 9000, <<>>, 1, 30) }
OverlapLegs == { Leg(newDate(2025, 5, 15), P_Tokyo, P_Okinawa) }

CsvOnly == {"transport.csv"}
CsvOrTsv == {"transport.csv", "fare_source.tsv"}

\* the deployments the model covers: the fare rows the server's file can
\* hold, the rows a file of the user can hold, the rows of the alias sheet,
\* the legs the user enters, the remote files that can end up as source,
\* whether the page has the place dropdowns #fromSelect, #toSelect, and
\* whether a fetch or a file can come without data rows, fail or answer HTML
Data ==
  [windows |-> [fare |-> WindowRows, file |-> WindowFileRows, alias |-> {},
                legs |-> WindowLegs, remote |-> CsvOnly, selects |-> TRUE, faulty |-> FALSE],
   peaks   |-> [fare |-> PeakRows, file |-> PeakFileRows, alias |-> {},
                legs |-> PeakLegs, remote |-> CsvOnly, selects |-> TRUE, faulty |-> FALSE],
   dupes   |-> [fare |-> DupeRows, file |-> DupeFileRows, alias |-> {},
                legs |-> DupeLegs, remote |-> CsvOrTsv, selects |-> TRUE, faulty |-> FALSE],
   collide |-> [fare |-> CollideRows, file |-> CollideFileRows, alias |-> {},
                legs |-> CollideLegs, remote |-> CsvOnly, selects |-> TRUE, faulty |-> FALSE],
   sheet   |-> [fare |-> SheetFareRows, file |-> SheetFileRows, alias |-> SheetRows,
                legs |-> SheetLegs, remote |-> CsvOnly, selects |-> TRUE, faulty |-> FALSE],
   periods |-> [fare |-> PeriodRows, file |-> PeriodFileRows, alias |-> {},
                legs |-> PeriodLegs, remote |-> CsvOnly, selects |-> TRUE, faulty |-> FALSE],
   literal |-> [fare |-> LiteralRows, file |-> LiteralRows, alias |-> LiteralSheetRows,
                legs |-> LiteralLegs, remote |-> CsvOnly, selects |-> TRUE, faulty |-> TRUE],
   bare    |-> [fare |-> BareRows, file |-> {}, alias |-> {},
                legs |-> BareLegs, remote |-> CsvOnly, selects |-> FALSE, faulty |-> TRUE],
   overlap |-> [fare |-> OverlapRows, file |-> OverlapFileRows, alias |-> {},
                legs |-> OverlapLegs, remote |-> CsvOnly, selects |-> TRUE, faulty |-> FALSE]]
Deployments == DOMAIN Data
\* the code sets no limit to the loads in flight; the model follows at most
\* this many from one moment without a load in flight to the next
LoadLimit(d) == IF d = "overlap" THEN MaxOverlap ELSE MaxLoads

\* the fare tables a fetch or a file can yield (the empty table stands for a
\* text without data rows), the alias tables (empty when there is no sheet)
Blank(d) == IF Data[d].faulty THEN {<<>>} ELSE {}
FareTables(d) == Blank(d) \cup (SeqsUpTo(Data[d].fare, MaxRows) \ {<<>>})
FileTables(d) == Blank(d) \cup (SeqsUpTo(Data[d].file, MaxRows) \ {<<>>})
AliasTables(d) == {<<>>} \cup SeqsUpTo(Data[d].alias, MaxAliasRows)
RemoteSources(d) == Data[d].remote
Itineraries(d) == {<<>>} \cup SeqsUpTo(Data[d].legs, MaxLegs)
\* the date the form's date field can hold
FormDates(d) == {newDate(2025, 5, 15)}

(***************************************************************************)
(* State                                                                   *)
(***************************************************************************)
VARIABLES
  dep,        \* the deployment: which data the environment can supply
  DB,         \* the global DB object: the active table
  legs,       \* window.__legs
  results,    \* the rows renderResults last put into the result table
  lastBuild,  \* history: the arguments of the last buildDBFromRows call
  rebuilt,    \* history: that call had the arguments of the call before it
  inflight,   \* the loads started since no load was in flight, in start order
  dbLoadMsg,  \* the text of #dbLoadMsg
  call,       \* a function of the code called on its own: its name and arguments
  ret         \* what that call returned

vars == <<dep, DB, legs, results, lastBuild, rebuilt, inflight, dbLoadMsg, call, ret>>

\* a load: loadDBRemote ("remote") or loadDBFromLocalFile ("local"), which
\* waits at an await ("pending"), has returned ("ok") or has thrown ("failed")
Load(kind, state) == [kind |-> kind, state |-> state]
\* the loads of inf that wait at an await, those of one kind
Pending(inf) == {i \in 1..Len(inf) : inf[i].state = "pending"}
PendingOf(inf, kind) == {i \in Pending(inf) : inf[i].kind = kind}
\* load i has ended: with no other load waiting nothing is in flight, else
\* the load is kept with its outcome
ended(inf, i, state) ==
  IF Pending(inf) = {i} THEN <<>> ELSE [inf EXCEPT ![i].state = state]

\* no function is called on its own while the page runs
NoCall == [fn |-> "none"]
NotReturned == [returned |-> FALSE]
Returned(v) == [returned |-> TRUE, value |-> v]

\* no buildDBFromRows call yet
NoBuild == [none |-> TRUE]
BuildArgs(fareRows, sourceName, sourceUrl, aliasRows) ==
  [fareRows |-> fareRows, sourceName |-> sourceName, sourceUrl |-> sourceUrl,
   aliasRows |-> aliasRows]

resolvePlace(name) == resolvePlaceIn(DB.aliasToCanon, name)
findFare(date, from, to) == findFareIn(DB.aliasToCanon, DB.routeMap, date, from, to)

\* the rows runSearch hands to renderResults for the table db and the legs ls
\* (lines 584-610): findFare of every leg, in leg order
runSearch(db, ls) ==
  IF Len(db.faresRows) = 0 THEN <<>>
  ELSE IF Len(ls) = 0 THEN <<>>
  ELSE [i \in 1..Len(ls) |->
          [leg |-> ls[i],
           res |-> findFareIn(db.aliasToCanon, db.routeMap,
                              ls[i].date, ls[i].from, ls[i].to)]]

\* the texts setDbLoadMsg writes: "DB読み込み中...", "✅ DB読込完了: ...",
\* "⚠ ... 検索用データが0件です ...", "❌ ... 失敗: " + e.message,
\* "ローカルファイルを選択してください ..."
MsgLoading == [kind |-> "loading"]
MsgDone == [kind |-> "done"]
MsgNoRecords == [kind |-> "no records"]
MsgNoFile == [kind |-> "no file"]
MsgFailed(reason) == [kind |-> "failed", reason |-> reason]
FailedMsgs == {MsgFailed(r) : r \in {"fetch", "html", "shape", "render"}}

\* the state in which boot() waits for its loadDBRemote() (lines 998-1012):
\* no legs, an empty result table, the automatic load in flight
Init ==
  /\ dep \in Deployments
  /\ DB = EmptyDB
  /\ legs = <<>>
  /\ results = <<>>
  /\ lastBuild = NoBuild
  /\ rebuilt = FALSE
  /\ inflight = <<Load("remote", "pending")>>
  /\ dbLoadMsg = MsgLoading
  /\ call = NoCall
  /\ ret = NotReturned

(***************************************************************************)
(* Loads (lines 823-883, 971-996).  A load runs in two steps of the event  *)
(* loop: its start, up to the first await, and its end, from the last      *)
(* await on.  The awaits in between (the fetches of the fare file and of   *)
(* the alias sheet) write the load log and local variables only; what they *)
(* return is chosen when the load ends.                                    *)
(***************************************************************************)
\* what the start of a load leaves of the active table: loadDBRemote and
\* loadDBFromLocalFile assign DB.loadLog only before their first await
tableResetAtStart(db) == EmptyDB
tableAtStart(db) == db

\* what the fetch of a fare file can end in: every URL failed, an HTML page,
\* or a text that parseCSV / parseTSV turn into rows
FetchError == [kind |-> "error"]
HtmlPage == [kind |-> "html"]
Fetched(t) == [kind |-> "rows", rows |-> t]
Faults(d) == IF Data[d].faulty THEN {FetchError, HtmlPage} ELSE {}
CsvResponses(d) == Faults(d) \cup {Fetched(t) : t \in FareTables(d)}
\* a server without fare_source.tsv answers with an error, or with the HTML
\* page it serves for every unknown path
TsvResponses(d) ==
  IF "fare_source.tsv" \in RemoteSources(d)
  THEN Faults(d) \cup {Fetched(t) : t \in FareTables(d)}
  ELSE {FetchError} \cup Faults(d)

\* the fetch gave rows that pass parseFareRowsFromText (lines 848-849, 857-858)
usable(resp) == resp.kind = "rows" /\ hasFareShape(resp.rows)
\* the error thrown otherwise
errorOf(resp) ==
  IF resp.kind = "error" THEN "fetch" ELSE IF resp.kind = "html" THEN "html" ELSE "shape"

\* the message buildDBFromRows leaves (lines 801-805)
builtMsg(db) ==
  IF Len(db.faresRows) = 0 \/ Len(db.places) = 0 THEN MsgNoRecords ELSE MsgDone

\* the load throws before buildDBFromRows: the catch of the caller writes the
\* message (lines 974-978, 991-994, 1013-1017)
Fail(i, reason) ==
  /\ inflight' = ended(inflight, i, "failed")
  /\ dbLoadMsg' = MsgFailed(reason)
  /\ UNCHANGED <<dep, DB, legs, results, lastBuild, rebuilt, call, ret>>

\* the part of a load after its last await (lines 864-870 and 879-882):
\* buildDBFromRows, then renderSelectOptions, which throws on its line 451
\* when the page has no #fromSelect or #toSelect, then runSearch
Install(i, fareRows, sourceName, sourceUrl, aliasRows) ==
  /\ inflight' = ended(inflight, i, IF Data[dep].selects THEN "ok" ELSE "failed")
  /\ DB' = buildDBFromRows(DB, fareRows, sourceName, sourceUrl, aliasRows)
  /\ lastBuild' = BuildArgs(fareRows, sourceName, sourceUrl, aliasRows)
  /\ rebuilt' = (lastBuild' = lastBuild)
  /\ IF Data[dep].selects
     THEN /\ results' = runSearch(DB', legs)
          /\ dbLoadMsg' = builtMsg(DB')
     ELSE /\ results' = results
          /\ dbLoadMsg' = MsgFailed("render")
  /\ UNCHANGED <<dep, legs, call, ret>>

\* #btnReloadDb: loadDBRemote() up to its first await
BtnReloadDb ==
  /\ Len(inflight) < LoadLimit(dep)
  /\ inflight' = Append(inflight, Load("remote", "pending"))
  /\ dbLoadMsg' = MsgLoading
  /\ DB' = tableAtStart(DB)
  /\ UNCHANGED <<dep, legs, results, lastBuild, rebuilt, call, ret>>

\* #btnLoadLocalDb: without a chosen file a message, else
\* loadDBFromLocalFile(file) up to its first await
BtnLoadLocalDb ==
  IF Data[dep].file = {}
  THEN /\ dbLoadMsg' = MsgNoFile
       /\ UNCHANGED <<dep, DB, legs, results, lastBuild, rebuilt, inflight, call, ret>>
  ELSE /\ Len(inflight) < LoadLimit(dep)
       /\ inflight' = Append(inflight, Load("local", "pending"))
       /\ DB' = tableAtStart(DB)
       /\ UNCHANGED <<dep, legs, results, lastBuild, rebuilt, dbLoadMsg, call, ret>>

\* the rest of loadDBRemote: the rows come from transport.csv, or from
\* fare_source.tsv when transport.csv failed
RemoteFromTsv(i) ==
  \E tsv \in TsvResponses(dep) :
     IF usable(tsv)
     THEN \E al \in AliasTables(dep) :
             Install(i, tsv.rows, "fare_source.tsv", "fare_source.tsv", al)
     ELSE Fail(i, errorOf(tsv))

LoadDBRemote ==
  \E i \in PendingOf(inflight, "remote") :
    \E csv \in CsvResponses(dep) :
       IF usable(csv)
       THEN \E al \in AliasTables(dep) :
               Install(i, csv.rows, "transport.csv", "transport.csv", al)
       ELSE RemoteFromTsv(i)

\* the rest of loadDBFromLocalFile
LoadDBFromLocalFile ==
  \E i \in PendingOf(inflight, "local") :
    \E t \in FileTables(dep), al \in AliasTables(dep) :
       IF hasFareShape(t)
       THEN Install(i, t, "local:file", "", al)
       ELSE Fail(i, "shape")

(***************************************************************************)
(* Itinerary events (lines 484-502, 908-968)                               *)
(***************************************************************************)
SetLegs(ls) ==
  /\ legs' = ls
  /\ results' = runSearch(DB, ls)
  /\ UNCHANGED <<dep, DB, lastBuild, rebuilt, inflight, dbLoadMsg, call, ret>>

\* #btnParse: the legs parseItineraryLines read from the text
BtnParse == \E ls \in Itineraries(dep) : SetLegs(ls)

\* the legs #btnAddLeg adds (lines 938-957)
legsToAdd(d, from, to, via1, via2) ==
  LET leg(a, b) == [date |-> d, from |-> a, to |-> b]
  IN  IF via1 # <<>> /\ via2 # <<>>
      THEN <<leg(from, to), leg(from, via1), leg(via1, via2), leg(via2, to)>>
      ELSE IF via1 # <<>>
      THEN <<leg(from, to), leg(from, via1), leg(via1, to)>>
      ELSE IF via2 # <<>>
      THEN <<leg(from, to), leg(from, via2), leg(via2, to)>>
      ELSE <<leg(from, to)>>

\* the values a place dropdown offers: blank, or a place of the active table;
\* $("#fromSelect")?.value || "" is blank on a page without the dropdowns
SelectOptions ==
  IF Data[dep].selects
  THEN {<<>>} \cup {DB.places[i] : i \in 1..Len(DB.places)}
  ELSE {<<>>}

\* #btnAddLeg: date, origin and destination are required
BtnAddLeg ==
  \E via1 \in SelectOptions, via2 \in SelectOptions :
     /\ Len(legs) + Len(legsToAdd(null, <<>>, <<>>, via1, via2)) <= MaxLegs
     /\ \E d \in FormDates(dep) \cup {null}, from \in SelectOptions, to \in SelectOptions :
          IF ~isDate(d) \/ from = <<>> \/ to = <<>>
          THEN UNCHANGED vars
          ELSE SetLegs(legs \o legsToAdd(d, from, to, via1, via2))

\* the delete button of leg idx: window.__legs.splice(idx, 1)
LegDel ==
  \E idx \in 1..Len(legs) :
     SetLegs([i \in 1..(Len(legs) - 1) |-> IF i < idx THEN legs[i] ELSE legs[i + 1]])

Swap(ls, i, j) == [ls EXCEPT ![i] = ls[j], ![j] = ls[i]]

\* the up button of leg idx
LegUp ==
  \E idx \in 1..Len(legs) :
     SetLegs(IF idx > 1 THEN Swap(legs, idx - 1, idx) ELSE legs)

\* the down button of leg idx
LegDown ==
  \E idx \in 1..Len(legs) :
     SetLegs(IF idx < Len(legs) THEN Swap(legs, idx, idx + 1) ELSE legs)

\* #btnResetLegs
BtnResetLegs ==
  /\ legs' = <<>>
  /\ results' = runSearch(DB, <<>>)
  /\ UNCHANGED <<dep, DB, lastBuild, rebuilt, inflight, dbLoadMsg, call, ret>>

Next ==
  \/ BtnReloadDb
  \/ BtnLoadLocalDb
  \/ LoadDBRemote
  \/ LoadDBFromLocalFile
  \/ BtnParse
  \/ BtnAddLeg
  \/ LegDel
  \/ LegUp
  \/ LegDown
  \/ BtnResetLegs

Spec == Init /\ [][Next]_vars

(***************************************************************************)
(* The functions of the code called on their own: one call per behaviour,  *)
(* its arguments drawn from the sets below, the page left as constructed   *)
(***************************************************************************)
\* ---- alignToWholeRange ---------------------------------------------------
\* period ends and boarding windows around the season 2025-10-26..2026-03-28
AlignDates ==
  { newDate(2024, 11, 15), newDate(2025, 0, 5), newDate(2025, 0, 20),
    newDate(2025, 9, 10), newDate(2025, 10, 1), newDate(2025, 10, 30),
    newDate(2026, 0, 5), newDate(2026, 3, 10) }
AlignWindows ==
  { <<newDate(2025, 9, 26), newDate(2026, 2, 28)>>,
    <<newDate(2025, 11, 1), newDate(2026, 0, 31)>>,
    <<newDate(2025, 0, 1), newDate(2025, 11, 31)>>,
    <<null, null>> }
AlignCalls ==
  { [fn |-> "alignToWholeRange", pFrom |-> a, pTo |-> b,
     wholeFrom |-> w[1], wholeTo |-> w[2]] :
      a \in AlignDates, b \in AlignDates, w \in AlignWindows }

CallAlign ==
  /\ call.fn = "alignToWholeRange"
  /\ ret = NotReturned
  /\ ret' = Returned(alignToWholeRange(call.pFrom, call.pTo,
                                       call.wholeFrom, call.wholeTo))
  /\ UNCHANGED <<dep, DB, legs, results, lastBuild, rebuilt, inflight, dbLoadMsg, call>>

\* ---- a load from the rows of a local file (lines 877-879): the shape check
\* ---- of parseFareRowsFromText, then buildDBFromRows without alias rows --------
\* a fare row with every period column
PeriodRow(from, to, fare, wf, wt, vf, vt, range) ==
  Row(PeriodHeader, <<from, to, fare, wf, wt, vf, vt, range>>)
June(d) == iso(2025, 6, d)
July(d) == iso(2025, 7, d)
Slash == <<" ", "/", " ">>

\* rows with a boarding window: periods inside, across and outside it
ClampRows ==
  { \* the first period outside the window, the second inside
    PeriodRow(P_Tokyo, P_Okinawa, String(100), June(1), June(30), <<>>, <<>>,
              span(July(1), July(10)) \o Slash \o span(June(5), June(10))),
    \* a period that starts before the window
    PeriodRow(P_Tokyo, P_Okinawa, String(200), June(1), June(30),
              iso(2025, 5, 20), June(10), <<>>),
    \* a period outside the window
    PeriodRow(P_Tokyo, P_Okinawa, String(300), June(1), June(30),
              July(1), July(10), <<>>),
    \* a window written end first
    PeriodRow(P_Tokyo, P_Okinawa, String(400), June(30), June(1),
              June(5), June(10), <<>>),
    \* a window across the year, January written with the start year
    PeriodRow(P_Tokyo, P_Okinawa, String(500), iso(2025, 10, 26), iso(2026, 3, 28),
              <<>>, <<>>,
              span(iso(2025, 1, 5), iso(2025, 1, 20)) \o Slash
                \o span(iso(2025, 9, 1), iso(2025, 11, 30))) }

\* a row valid from the day d of June 2025 with the fare text
FareRow(text, d) ==
  PeriodRow(P_Tokyo, P_Okinawa, text, June(d), June(30), <<>>, <<>>, <<>>)
\* fare texts: 1,200円  -500  abc  -  (empty)  12-3
FareRows ==
  { FareRow(<<"1", ",", "2", "0", "0", "u5186">>, 1),
    FareRow(<<"-", "5", "0", "0">>, 2),
    FareRow(<<"a", "b", "c">>, 3),
    FareRow(<<"-">>, 4),
    FareRow(<<>>, 5),
    FareRow(<<"1", "2", "-", "3">>, 6) }

\* rows valid in June 2025, two of them without origin or destination
GapRow(from, to, fare) ==
  PeriodRow(from, to, String(fare), June(1), June(30), <<>>, <<>>, <<>>)
GapRows ==
  { GapRow(P_Tokyo, P_Okinawa, 100),
    GapRow(P_Okinawa, P_Tokyo, 200),
    GapRow(<<>>, P_Okinawa, 300),
    GapRow(P_Tokyo, <<" ", " ">>, 400) }

\* rows that differ in where their periods are written: the explicit pair,
\* the range column, the boarding window
Foo == <<"f", "o", "o">>
SourceRows ==
  { \* the pair and the range column
    PeriodRow(P_Tokyo, P_Okinawa, String(100), <<>>, <<>>, June(1), June(10),
              span(June(15), June(20))),
    \* half a pair, and a range column with a segment that is no range
    PeriodRow(P_Tokyo, P_Okinawa, String(200), <<>>, <<>>, June(1), <<>>,
              span(July(20), July(25)) \o Slash \o Foo \o Slash
                \o span(July(1), July(5))),
    \* the boarding window alone
    PeriodRow(P_Tokyo, P_Okinawa, String(300), iso(2025, 5, 1), iso(2025, 5, 31),
              <<>>, <<>>, <<>>),
    \* no period at all
    PeriodRow(P_Tokyo, P_Okinawa, String(400), <<>>, <<>>, <<>>, <<>>, <<>>),
    \* a pair and a range column that do not parse, and the boarding window
    PeriodRow(P_Tokyo, P_Okinawa, String(500), iso(2025, 8, 1), iso(2025, 8, 31),
              Foo, iso(2025, 8, 10), Foo),
    \* the range column and the boarding window
    PeriodRow(P_Tokyo, P_Okinawa, String(600), iso(2025, 9, 1), iso(2025, 9, 30),
              <<>>, <<>>, span(iso(2025, 9, 5), iso(2025, 9, 10))),
    \* the pair, the range column and the boarding window
    PeriodRow(P_Tokyo, P_Okinawa, String(700), iso(2025, 10, 1), iso(2025, 10, 31),
              iso(2025, 10, 1), iso(2025, 10, 10),
              span(iso(2025, 10, 20), iso(2025, 10, 25))) }

\* rows of two routes: two periods in one row, the same route under another
\* spelling of its origin, and the route back
IndexRows ==
  { PeriodRow(P_Tokyo, P_Okinawa, String(100), June(1), June(30), <<>>, <<>>,
              span(June(1), June(10)) \o Slash \o span(June(20), June(25))),
    PeriodRow(P_TOKYO, P_Okinawa, String(200), June(1), June(30),
              June(5), June(15), <<>>),
    PeriodRow(P_Okinawa, P_Tokyo, String(300), June(1), June(30), <<>>, <<>>,
              span(June(11), June(20)) \o Slash \o span(June(1), June(10))) }

LoadRowPools == {ClampRows, FareRows, GapRows, SourceRows, IndexRows}
LoadCalls ==
  { [fn |-> "load", rows |-> t] :
      t \in UNION {SeqsUpTo(pool, MaxRows) : pool \in LoadRowPools} }

\* the load threw
Threw == [threw |-> TRUE]

CallLoad ==
  /\ call.fn = "load"
  /\ ret = NotReturned
  /\ ret' = IF hasFareShape(call.rows)
            THEN Returned(buildDBFromRows(EmptyDB, call.rows, "local:file", "", <<>>))
            ELSE Threw
  /\ UNCHANGED <<dep, DB, legs, results, lastBuild, rebuilt, inflight, dbLoadMsg, call>>


\* ---- parseDateLoose (lines 108-128) on texts written in the formats of the
\* ---- documentation and on other texts ----------------------------------------
\* a text and the year, month and day it was written from (none for a text
\* in no documented format)
DateText(s, written) == [fn |-> "parseDateLoose", s |-> s, written |-> written]
Sep(y, a, m, b, d) == String(y) \o <<a>> \o m \o <<b>> \o d
DateCalls ==
  { \* YYYY-MM-DD and YYYY/MM/DD, padded and not
    DateText(iso(2025, 6, 1), <<2025, 6, 1>>),
    DateText(Sep(2025, "-", String(6), "-", String(1)), <<2025, 6, 1>>),
    DateText(Sep(2024, "-", String(2), "-", String(29)), <<2024, 2, 29>>),
    DateText(Sep(2025, "/", padStart2(12), "/", padStart2(31)), <<2025, 12, 31>>),
    DateText(Sep(2026, "/", String(1), "/", String(5)), <<2026, 1, 5>>),
    \* YYYY/MM
    DateText(String(2025) \o <<"/">> \o padStart2(6), <<2025, 6, 1>>),
    DateText(String(2025) \o <<"/">> \o String(12), <<2025, 12, 1>>),
    \* M/D and M-D
    DateText(String(6) \o <<"/">> \o String(1), <<CurrentYear, 6, 1>>),
    DateText(String(12) \o <<"-">> \o String(31), <<CurrentYear, 12, 31>>),
    DateText(padStart2(6) \o <<"-">> \o padStart2(15), <<CurrentYear, 6, 15>>),
    \* other texts: empty, blank, 2025-06, 2025.6.1, 20250601, 6/1/2025,
    \* 2025-6-1-, abc, 2025/06/01 12:00, 2025-06/01
    DateText(<<>>, <<>>),
    DateText(<<" ", " ">>, <<>>),
    DateText(String(2025) \o <<"-">> \o padStart2(6), <<>>),
    DateText(Sep(2025, ".", String(6), ".", String(1)), <<>>),
    DateText(String(20250601), <<>>),
    DateText(String(6) \o <<"/">> \o String(1) \o <<"/">> \o String(2025), <<>>),
    DateText(Sep(2025, "-", String(6), "-", String(1)) \o <<"-">>, <<>>),
    DateText(<<"a", "b", "c">>, <<>>),
    DateText(Sep(2025, "/", padStart2(6), "/", padStart2(1)) \o <<" ", "1", "2", ":", "0", "0">>, <<>>),
    DateText(Sep(2025, "-", padStart2(6), "/", padStart2(1)), <<>>) }

CallParseDate ==
  /\ call.fn = "parseDateLoose"
  /\ ret = NotReturned
  /\ ret' = Returned(parseDateLoose(call.s))
  /\ UNCHANGED <<dep, DB, legs, results, lastBuild, rebuilt, inflight, dbLoadMsg, call>>

\* ---- canonicalKey (lines 65-93) on column labels ---------------------------
Label(k) == [fn |-> "canonicalKey", k |-> k]
\* labels in Latin letters
A_from       == <<"F", "r", "o", "m">>
A_validFrom  == <<"v", "a", "l", "i", "d", "F", "r", "o", "m">>
A_validTo    == <<"v", "a", "l", "i", "d", "T", "o">>
A_priceType  == <<"p", "r", "i", "c", "e", "T", "y", "p", "e">>
A_validRange == <<"V", "a", "l", "i", "d", " ", "R", "a", "n", "g", "e">>
A_periodFrom == <<"p", "e", "r", "i", "o", "d", "_", "f", "r", "o", "m">>
A_period     == <<"P", "e", "r", "i", "o", "d">>
A_season     == <<"S", "e", "a", "s", "o", "n">>
A_synonym    == <<"s", "y", "n", "o", "n", "y", "m">>
A_canonical  == <<"C", "a", "n", "o", "n", "i", "c", "a", "l">>
A_memo       == <<"M", "e", "m", "o", " ", "1">>
\* 備考, シーズン, 出発地（空港）, BOM + 出発地, 到着予定運賃, 出 発 地 with an
\* ideographic space, メモ
L_rule       == <<"u5099", "u8003">>
L_season     == <<"u30B7", "u30FC", "u30BA", "u30F3">>
L_fromNote   == L_from \o <<"uFF08", "u7A7A", "u6E2F", "uFF09">>
L_fromBOM    == <<"uFEFF">> \o L_from
L_toFare     == <<"u5230", "u7740", "u4E88", "u5B9A">> \o L_fare
L_fromSpaced == <<"u51FA", "u3000", "u767A", " ", "u5730">>
L_memo       == <<"u30E1", "u30E2">>
Labels ==
  { L_from, L_to, L_fare, L_priceType, L_wholeFrom, L_wholeTo, L_validFrom,
    L_validTo, L_validRange, L_alias, L_canonical, L_rule,
    A_from, A_validFrom, A_validTo, A_priceType, A_validRange, A_periodFrom,
    A_period, A_season, A_synonym, A_canonical, A_memo,
    L_season, L_fromNote, L_fromBOM, L_toFare, L_fromSpaced, L_memo, <<>> }
\* the twelve canonical field names, used as column labels
CanonicalNames ==
  { K_from, K_to, K_fare, K_priceType, K_wholeFrom, K_wholeTo, K_validFrom,
    K_validTo, K_validRange, K_alias, K_canonical, K_rule }
KeyCalls == {Label(k) : k \in Labels \cup CanonicalNames}

CallCanonicalKey ==
  /\ call.fn = "canonicalKey"
  /\ ret = NotReturned
  /\ ret' = Returned(canonicalKey(call.k))
  /\ UNCHANGED <<dep, DB, legs, results, lastBuild, rebuilt, inflight, dbLoadMsg, call>>

\* ---- normalizeRowKeys (lines 95-103) on rows with three columns of the
\* ---- origin and one of the destination -------------------------------------
OriginCells == {<<>>, <<" ">>, P_Tokyo, <<" ">> \o P_Naha}
KeyedRow(a, b, c) ==
  [fn |-> "normalizeRowKeys",
   row |-> Row(<<L_from, L_to, A_from, L_fromNote>>, <<a, P_Okinawa, b, c>>)]
RowCalls == {KeyedRow(a, b, c) : a \in OriginCells, b \in OriginCells, c \in OriginCells}

CallNormalizeRowKeys ==
  /\ call.fn = "normalizeRowKeys"
  /\ ret = NotReturned
  /\ ret' = Returned(normalizeRowKeys(call.row))
  /\ UNCHANGED <<dep, DB, legs, results, lastBuild, rebuilt, inflight, dbLoadMsg, call>>

\* ---- buildDBFromRows (lines 698-806) on fare rows with Japanese place names
\* ---- and the rows of an alias sheet -------------------------------------------
\* rows of the alias sheet in one call
MaxSheetRows == 2
\* 東京 東京都 東京空港 羽田 羽田空港 成田 沖縄 那覇
J_Tokyo         == <<"u6771", "u4EAC">>
J_TokyoTo       == J_Tokyo \o <<"u90FD">>
J_TokyoAirport  == J_Tokyo \o <<"u7A7A", "u6E2F">>
J_Haneda        == <<"u7FBD", "u7530">>
J_HanedaAirport == J_Haneda \o <<"u7A7A", "u6E2F">>
J_Narita        == <<"u6210", "u7530">>
J_Okinawa       == <<"u6C96", "u7E04">>
J_Naha          == <<"u90A3", "u8987">>
JapaneseRows ==
  { AliasRow(J_Tokyo, J_Okinawa, 100),
    AliasRow(J_TokyoTo, J_TokyoAirport, 200),
    AliasRow(J_HanedaAirport, J_Naha, 300),
    AliasRow(J_Haneda, J_TokyoTo, 400) }
\* alias rows: 羽田 -> 成田, 羽田 -> 沖縄, 東京 -> 那覇, 羽田 -> (empty)
JapaneseSheetRows ==
  { Row(AliasSheetHeader, <<J_Haneda, J_Narita>>),
    Row(AliasSheetHeader, <<J_Haneda, J_Okinawa>>),
    Row(AliasSheetHeader, <<J_Tokyo, J_Naha>>),
    Row(AliasSheetHeader, <<J_Haneda, <<>>>>) }
BuildCalls ==
  { [fn |-> "buildDBFromRows", rows |-> t, aliasRows |-> al] :
      t \in SeqsUpTo(JapaneseRows, MaxRows),
      al \in {<<>>} \cup SeqsUpTo(JapaneseSheetRows, MaxSheetRows) }

CallBuild ==
  /\ call.fn = "buildDBFromRows"
  /\ ret = NotReturned
  /\ ret' = Returned(buildDBFromRows(EmptyDB, call.rows, "transport.csv",
                                     "transport.csv", call.aliasRows))
  /\ UNCHANGED <<dep, DB, legs, results, lastBuild, rebuilt, inflight, dbLoadMsg, call>>

(***************************************************************************)
(* src/unnamed/part_000 241-288: resolvePlace and findFare of the older    *)
(* copy of the page                                                        *)
(***************************************************************************)
\* resolvePlace (241-245): DB.aliasToCanon.get(norm(name)) || name.trim()
resolvePlaceOld(a, name) == aliasOrSelf(a, name, norm(name))

\* the comparator of pick (267) returns a negative number
pickBefore(a, b) ==
  IF windowLen(a) # windowLen(b) THEN windowLen(a) < windowLen(b)
  ELSE a.priceType = Peak

\* pick (264-269): the first of the rows in range, sorted
pick(arr, d) ==
  IF SelectSeq(arr, LAMBDA r : inRange(d, r.validFrom, r.validTo)) = <<>>
  THEN null
  ELSE Sort(SelectSeq(arr, LAMBDA r : inRange(d, r.validFrom, r.validTo)),
            pickBefore)[1]

\* DB.routeMap?.get(key) || null: an entry of the index is an array, and an
\* array, empty or not, is truthy
getList(rm, key) == MapHas(rm, key)

\* the reverse record with its note (280)
ReverseNote == <<"reverse">>
withNote(r) == [k \in DOMAIN r \cup {"note"} |-> IF k = "note" THEN ReverseNote ELSE r[k]]

\* lines 278-287, reached when the forward pick gave nothing: the reverse
\* list is picked from when it is there; DB.routeMap.filter is called when
\* it is not (278) and again for the near matches when no record was picked
\* (285). DB.routeMap is a Map (lines 9 and 635), and a Map has no method
\* filter: the call raises a TypeError
findReverseOld(rm, d, f, t, keyTF) ==
  IF ~getList(rm, keyTF) THEN Threw
  ELSE IF pick(MapGet(rm, keyTF), d) # null
  THEN Returned([hit |-> TRUE, row |-> withNote(pick(MapGet(rm, keyTF), d)),
                 from |-> f, to |-> t,
                 tried |-> <<f \o Arrow \o t, t \o Arrow \o f>>])
  ELSE Threw

\* lines 271-275: the forward list, or DB.routeMap.filter when it is not
\* there
findForwardOld(rm, d, f, t, keyFT, keyTF) ==
  IF ~getList(rm, keyFT) THEN Threw
  ELSE IF pick(MapGet(rm, keyFT), d) # null
  THEN Returned([hit |-> TRUE, row |-> pick(MapGet(rm, keyFT), d),
                 from |-> f, to |-> t, tried |-> <<f \o Arrow \o t>>])
  ELSE findReverseOld(rm, d, f, t, keyTF)

findResolvedOld(rm, d, f, t) ==
  findForwardOld(rm, d, f, t, normKey(f) \o RouteSep \o normKey(t),
                 normKey(t) \o RouteSep \o normKey(f))

\* findFare of src/unnamed/part_000, reading the alias table a and the
\* route index rm
findFareOld(a, rm, date, from, to) ==
  findResolvedOld(rm, date, resolvePlaceOld(a, from), resolvePlaceOld(a, to))

\* the tables the lookups run against: the table before any load and the
\* tables of one and two rows (the places have no middle dot and no bracket,
\* so norm and normKey agree on them)
LookupDates == {newDate(2025, 5, 15), newDate(2025, 6, 15)}
LookupPlaces == {J_Tokyo, J_Okinawa, J_Naha, J_HanedaAirport}
LookupCalls ==
  { [fn |-> "findFare", rows |-> t, date |-> d, from |-> f, to |-> g] :
      t \in {<<>>} \cup SeqsUpTo(JapaneseRows, MaxRows),
      d \in LookupDates, f \in LookupPlaces, g \in LookupPlaces }

\* the table built from the rows of a call
TableOfRows(rows) ==
  IF rows = <<>> THEN EmptyDB
  ELSE buildDBFromRows(EmptyDB, rows, "transport.csv", "transport.csv", <<>>)

CallFindFareOld ==
  /\ call.fn = "findFare"
  /\ ret = NotReturned
  /\ ret' = findFareOld(TableOfRows(call.rows).aliasToCanon,
                        TableOfRows(call.rows).routeMap,
                        call.date, call.from, call.to)
  /\ UNCHANGED <<dep, DB, legs, results, lastBuild, rebuilt, inflight, dbLoadMsg, call>>

\* ---- the calls and their specification -----------------------------------
Calls == AlignCalls \cup LoadCalls \cup DateCalls \cup KeyCalls \cup RowCalls \cup BuildCalls \cup LookupCalls

CallInit ==
  /\ dep = "none"
  /\ DB = EmptyDB
  /\ legs = <<>>
  /\ results = <<>>
  /\ lastBuild = NoBuild
  /\ rebuilt = FALSE
  /\ inflight = <<>>
  /\ dbLoadMsg = MsgLoading
  /\ call \in Calls
  /\ ret = NotReturned

CallNext ==
  \/ CallAlign
  \/ CallLoad
  \/ CallParseDate
  \/ CallCanonicalKey
  \/ CallNormalizeRowKeys
  \/ CallBuild
  \/ CallFindFareOld

CallSpec == CallInit /\ [][CallNext]_vars


(***************************************************************************)
(* Properties                                                              *)
(***************************************************************************)
\* the result rows, the records, the route-index entries by position
ResultIdx == 1..Len(results)
RecordIdx == 1..Len(DB.faresRows)
RouteIdx == 1..Len(DB.routeMap)

\* the route-index lists findFare read for result row i
ForwardList(i) ==
  routeList(DB.routeMap,
            normKey(results[i].res.from) \o RouteSep \o normKey(results[i].res.to))
ReverseList(i) ==
  routeList(DB.routeMap,
            normKey(results[i].res.to) \o RouteSep \o normKey(results[i].res.from))
\* the list the record of result row i was looked up in
LookedUp(i) == IF results[i].res.usedReverse THEN ReverseList(i) ELSE ForwardList(i)

\* record r's window contains the date d
Covers(r, d) == r.validFrom.time <= d.time /\ d.time <= r.validTo.time
Covering(list, d) == {k \in 1..Len(list) : Covers(list[k], d)}

\* C1: a hit's record has validFrom <= d <= validTo for the leg's date d,
\* from the forward entry or from the reverse entry
C1_HitWithinWindow ==
  \A i \in ResultIdx :
    results[i].res.hit =>
      /\ results[i].res.row.validFrom.time <= results[i].leg.date.time
      /\ results[i].leg.date.time <= results[i].res.row.validTo.time

\* a hit taken from the reverse entry, on the first day of the record's window
C1_Witness ==
  \E i \in ResultIdx :
    /\ results[i].res.hit
    /\ results[i].res.usedReverse
    /\ results[i].leg.date = results[i].res.row.validFrom

\* C2: every record of the table has validFrom <= validTo
C2_WindowsOrdered ==
  \A i \in RecordIdx :
    DB.faresRows[i].validFrom.time <= DB.faresRows[i].validTo.time

\* C3: resolvePlace(p) = p for every place p of the table
C3_PlacesResolveToThemselves ==
  \A i \in 1..Len(DB.places) : resolvePlace(DB.places[i]) = DB.places[i]

\* a beats b in the order of the claim: shorter window, then the peak record,
\* then the lower fare
Length(r) == r.validTo.time - r.validFrom.time
IsPeak(r) == r.priceType = Peak
Beats(a, b) ==
  \/ Length(a) < Length(b)
  \/ Length(a) = Length(b) /\ IsPeak(a) /\ ~IsPeak(b)
  \/ Length(a) = Length(b) /\ IsPeak(a) = IsPeak(b) /\ a.fare < b.fare

\* C4: a hit's record is one of the records of the looked-up list whose
\* window contains the date, and none of them beats it
C4_BestIsMinimum ==
  \A i \in ResultIdx :
    results[i].res.hit =>
      /\ \E k \in Covering(LookedUp(i), results[i].leg.date) :
            LookedUp(i)[k] = results[i].res.row
      /\ \A k \in Covering(LookedUp(i), results[i].leg.date) :
            ~Beats(LookedUp(i)[k], results[i].res.row)

\* the peak record was chosen over a record of the same window length with a
\* lower fare
C4_Witness ==
  \E i \in ResultIdx :
    /\ results[i].res.hit
    /\ IsPeak(results[i].res.row)
    /\ \E k \in Covering(LookedUp(i), results[i].leg.date) :
          /\ Length(LookedUp(i)[k]) = Length(results[i].res.row)
          /\ LookedUp(i)[k].fare < results[i].res.row.fare

ForwardTried(i) == <<results[i].res.from \o Arrow \o results[i].res.to>>
BothTried(i) ==
  <<results[i].res.from \o Arrow \o results[i].res.to,
    results[i].res.to \o Arrow \o results[i].res.from>>

\* C5: when the forward entry has a record covering the date, the result is
\* a record of it with usedReverse = false and tried = [from->to]; when only
\* the reverse entry has one, the result is a record of the reverse entry
\* with usedReverse = true and tried = [from->to, to->from]
C5_ReverseOnlyAsFallback ==
  \A i \in ResultIdx :
    /\ Covering(ForwardList(i), results[i].leg.date) # {} =>
         /\ results[i].res.hit
         /\ results[i].res.usedReverse = FALSE
         /\ results[i].res.tried = ForwardTried(i)
         /\ \E k \in 1..Len(ForwardList(i)) : ForwardList(i)[k] = results[i].res.row
    /\ (Covering(ForwardList(i), results[i].leg.date) = {}
        /\ Covering(ReverseList(i), results[i].leg.date) # {}) =>
         /\ results[i].res.hit
         /\ results[i].res.usedReverse = TRUE
         /\ results[i].res.tried = BothTried(i)
         /\ \E k \in 1..Len(ReverseList(i)) : ReverseList(i)[k] = results[i].res.row

\* the forward record was taken although the reverse entry holds a covering
\* record with a narrower window
C5_Witness ==
  \E i \in ResultIdx :
    /\ results[i].res.hit
    /\ results[i].res.usedReverse = FALSE
    /\ \E k \in Covering(ReverseList(i), results[i].leg.date) :
          Length(ReverseList(i)[k]) < Length(results[i].res.row)

\* C6: a miss reports hasAnyRoute = true exactly when the forward or the
\* reverse entry of the resolved pair is non-empty
C6_MissReportsKnownRoute ==
  \A i \in ResultIdx :
    ~results[i].res.hit =>
      (results[i].res.hasAnyRoute <=>
         (Len(ForwardList(i)) > 0 \/ Len(ReverseList(i)) > 0))

\* a miss on a route known in the reverse direction only, on a date outside
\* its windows
C6_Witness ==
  \E i \in ResultIdx :
    /\ ~results[i].res.hit
    /\ results[i].res.hasAnyRoute
    /\ Len(ForwardList(i)) = 0
    /\ Len(ReverseList(i)) > 0

\* the table built from the one row labelled from, to, fare, priceType,
\* validFrom, validTo and the alias row labelled alias, canonical
LiteralScenario ==
  /\ dep = "literal"
  /\ lastBuild # NoBuild
  /\ Len(lastBuild.fareRows) = 1
  /\ Len(lastBuild.aliasRows) = 1

\* C7: in that table findFare(2025-06-15, Haneda, Okinawa) is a hit with
\* fare 12000
C7_LiteralLabelsHit ==
  LiteralScenario =>
    /\ findFare(newDate(2025, 5, 15), P_Haneda, P_Okinawa).hit
    /\ findFare(newDate(2025, 5, 15), P_Haneda, P_Okinawa).row.fare = 12000

\* two records of one route-index list tie on validFrom, validTo and fare
TiedRecords ==
  \E e \in RouteIdx : \E j, k \in 1..Len(DB.routeMap[e][2]) :
    /\ j < k
    /\ DB.routeMap[e][2][j].validFrom = DB.routeMap[e][2][k].validFrom
    /\ DB.routeMap[e][2][j].validTo = DB.routeMap[e][2][k].validTo
    /\ DB.routeMap[e][2][j].fare = DB.routeMap[e][2][k].fare

\* C8: a build with the arguments of the build before it leaves the records,
\* the alias table and the route index as they were
C8_RebuildIsIdentical ==
  [][(rebuilt' /\ lastBuild' = lastBuild) =>
       /\ DB'.faresRows = DB.faresRows
       /\ DB'.aliasToCanon = DB.aliasToCanon
       /\ DB'.routeMap = DB.routeMap]_vars

\* a table built twice from the same rows, with tied records in a route list
C8_Witness == rebuilt /\ TiedRecords /\ Len(lastBuild.aliasRows) = 0

\* the composite key of a record
CompositeKey(r) == <<r.from, r.to, r.priceType, r.validFrom, r.validTo>>

\* the composite keys the input row gives rise to
KeysOfRow(rr, wholeFrom, wholeTo) ==
  {<<trim(Field(rr, K_from, <<>>)), trim(Field(rr, K_to, <<>>)),
     orStandard(trim(Field(rr, K_priceType, <<>>))), a.from, a.to>> :
     a \in {alignToWholeRange(p.from, p.to, wholeFrom, wholeTo) :
              p \in {periodsOf(rr, wholeFrom, wholeTo)[k] :
                       k \in 1..Len(periodsOf(rr, wholeFrom, wholeTo))}} \ {null}}
RowKeys(row) ==
  KeysOfRow(normalizeRowKeys(row),
            parseDateLoose(Field(normalizeRowKeys(row), K_wholeFrom, <<>>)),
            parseDateLoose(Field(normalizeRowKeys(row), K_wholeTo, <<>>)))
\* the input rows of the last build that give rise to the key of record r
RowsOf(r) ==
  {k \in 1..Len(lastBuild.fareRows) : CompositeKey(r) \in RowKeys(lastBuild.fareRows[k])}

\* C9: no two records share the composite key (from, to, priceType,
\* validFrom, validTo), and a record carries the fare of the first input row
\* that gives rise to its key
C9_KeysUniqueFirstKept ==
  /\ \A i, j \in RecordIdx :
       CompositeKey(DB.faresRows[i]) = CompositeKey(DB.faresRows[j]) => i = j
  /\ \A i \in RecordIdx :
       /\ RowsOf(DB.faresRows[i]) # {}
       /\ \E k \in RowsOf(DB.faresRows[i]) :
            /\ \A m \in RowsOf(DB.faresRows[i]) : k <= m
            /\ DB.faresRows[i].fare =
                 fareOf(Field(normalizeRowKeys(lastBuild.fareRows[k]), K_fare, <<"0">>))

\* two input rows with one key and different fares left one record
C9_Witness ==
  /\ lastBuild # NoBuild
  /\ Len(lastBuild.fareRows) = 2
  /\ lastBuild.fareRows[1] # lastBuild.fareRows[2]
  /\ RowKeys(lastBuild.fareRows[1]) = RowKeys(lastBuild.fareRows[2])
  /\ Len(DB.faresRows) = 1

\* a comes no later than b in the order validFrom, validTo, fare
InRouteOrder(a, b) ==
  \/ a.validFrom.time < b.validFrom.time
  \/ a.validFrom.time = b.validFrom.time /\ a.validTo.time < b.validTo.time
  \/ a.validFrom.time = b.validFrom.time /\ a.validTo.time = b.validTo.time
     /\ a.fare <= b.fare

\* C10: every route-index list is sorted by validFrom, validTo, fare and
\* holds exactly the records with its key normKey(from)||normKey(to), so an
\* entry exists only for a direction some record has
C10_RouteIndexSortedAndKeyed ==
  /\ \A e \in RouteIdx :
       /\ Len(DB.routeMap[e][2]) > 0
       /\ \A j \in 1..Len(DB.routeMap[e][2]) :
            /\ DB.routeMap[e][1] =
                 normKey(DB.routeMap[e][2][j].from) \o <<"|", "|">>
                   \o normKey(DB.routeMap[e][2][j].to)
            /\ \E i \in RecordIdx : DB.faresRows[i] = DB.routeMap[e][2][j]
            /\ \A k \in 1..Len(DB.routeMap[e][2]) :
                 j < k => InRouteOrder(DB.routeMap[e][2][j], DB.routeMap[e][2][k])
  /\ \A i \in RecordIdx : \E e \in RouteIdx :
       /\ DB.routeMap[e][1] =
            normKey(DB.faresRows[i].from) \o <<"|", "|">> \o normKey(DB.faresRows[i].to)
       /\ \E j \in 1..Len(DB.routeMap[e][2]) : DB.routeMap[e][2][j] = DB.faresRows[i]

\* a one-way table whose route list is in another order than its records
C10_Witness ==
  /\ Len(DB.routeMap) = 1
  /\ Len(DB.faresRows) = 2
  /\ DB.routeMap[1][2] # DB.faresRows
  /\ DB.faresRows[1].from # DB.faresRows[1].to

(***************************************************************************)
(* Properties of the functions called on their own (CallSpec)              *)
(***************************************************************************)
\* the same month and day of month one year later
YearLater(d) ==
  newDate(getFullYear(d) + 1, getMonth(d), CivilFromDays(d.time)[3])
\* an endpoint that carries the start year of the window from w on and a
\* month before its start month is moved one year forward
Moved(d, w) ==
  IF getFullYear(d) = getFullYear(w) /\ getMonth(d) < getMonth(w)
  THEN YearLater(d) ELSE d
\* both endpoints are moved one more year when the end is still before w
MovedAgain(f, t, w) ==
  IF t.time < w.time THEN <<YearLater(f), YearLater(t)>> ELSE <<f, t>>
Rolled(f, t, w) == MovedAgain(Moved(f, w), Moved(t, w), w)
\* the part of the range r inside the window, null when there is none
Later(a, b) == IF a.time < b.time THEN b ELSE a
Earlier(a, b) == IF a.time < b.time THEN a ELSE b
Within(r, wf, wt) ==
  IF Later(r[1], wf).time > Earlier(r[2], wt).time THEN null
  ELSE [from |-> Later(r[1], wf), to |-> Earlier(r[2], wt)]
\* the window of the call ends in a later year than it starts
CrossingCall ==
  /\ call.fn = "alignToWholeRange"
  /\ ret # NotReturned
  /\ isDate(call.wholeFrom) /\ isDate(call.wholeTo)
  /\ getFullYear(call.wholeTo) > getFullYear(call.wholeFrom)
\* the call of the example: 2025-01-05..2025-01-20 in 2025-10-26..2026-03-28
RolloverExample ==
  /\ call.fn = "alignToWholeRange"
  /\ ret # NotReturned
  /\ call.pFrom = newDate(2025, 0, 5) /\ call.pTo = newDate(2025, 0, 20)
  /\ call.wholeFrom = newDate(2025, 9, 26) /\ call.wholeTo = newDate(2026, 2, 28)

\* C11: for a window that ends in a later year than it starts, an endpoint
\* with the window's start year and a month before its start month is moved
\* one year forward, both endpoints one more year when the end is then still
\* before the window start, and the result is the part of that range inside
\* the window; 2025-01-05..2025-01-20 in the window 2025-10-26..2026-03-28
\* becomes 2026-01-05..2026-01-20
C11_YearRollover ==
  /\ CrossingCall =>
       ret.value = Within(Rolled(call.pFrom, call.pTo, call.wholeFrom),
                          call.wholeFrom, call.wholeTo)
  /\ RolloverExample =>
       ret.value = [from |-> newDate(2026, 0, 5), to |-> newDate(2026, 0, 20)]

\* the example has been aligned
C11_Witness == RolloverExample /\ ret.value # null

\* the value a raw row holds under the column label
CellOf(row, label) == row[CHOOSE i \in 1..Len(row) : row[i][1] = label][2]
\* the boarding window of a raw row
WindowOf(row) ==
  <<parseDateLoose(CellOf(row, L_wholeFrom)), parseDateLoose(CellOf(row, L_wholeTo))>>
HasWindow(row) == isDate(WindowOf(row)[1]) /\ isDate(WindowOf(row)[2])
HasPlaces(row) ==
  trim(CellOf(row, L_from)) # <<>> /\ trim(CellOf(row, L_to)) # <<>>
\* the load of the call returned a table
Loaded == call.fn = "load" /\ ret # NotReturned /\ ret # Threw
\* the records of the returned table built from a row with the fare text
\* of row k (the rows of a pool differ in their fare texts)
RecordsOfRow(k) ==
  {i \in 1..Len(ret.value.faresRows) :
     /\ ret.value.faresRows[i].fare = fareOf(CellOf(call.rows[k], L_fare))
     /\ ret.value.faresRows[i].from = trim(CellOf(call.rows[k], L_from))
     /\ ret.value.faresRows[i].to = trim(CellOf(call.rows[k], L_to))}
\* the periods of raw row k before alignment
PeriodsOfRow(k) ==
  periodsOf(normalizeRowKeys(call.rows[k]),
            WindowOf(call.rows[k])[1], WindowOf(call.rows[k])[2])
\* the part of period p inside the window w, after the year correction when
\* the window ends in a later year than it starts
InsideWindow(p, w) ==
  IF getFullYear(w[2]) > getFullYear(w[1])
  THEN Within(Rolled(p.from, p.to, w[1]), w[1], w[2])
  ELSE Within(<<p.from, p.to>>, w[1], w[2])
PartsInside(k) ==
  {InsideWindow(PeriodsOfRow(k)[j], WindowOf(call.rows[k])) :
     j \in 1..Len(PeriodsOfRow(k))}

\* the places and windows of the records row k is to give, and those of the
\* records of the returned table
RowParts(k) ==
  {<<trim(CellOf(call.rows[k], L_from)), trim(CellOf(call.rows[k], L_to)), p.from, p.to>> :
     p \in PartsInside(k) \ {null}}
RecordParts ==
  {<<ret.value.faresRows[i].from, ret.value.faresRows[i].to,
     ret.value.faresRows[i].validFrom, ret.value.faresRows[i].validTo>> :
     i \in 1..Len(ret.value.faresRows)}
\* record i lies inside the boarding window of row k, a row of its places
InsideRow(i, k) ==
  /\ HasPlaces(call.rows[k])
  /\ ret.value.faresRows[i].from = trim(CellOf(call.rows[k], L_from))
  /\ ret.value.faresRows[i].to = trim(CellOf(call.rows[k], L_to))
  /\ WindowOf(call.rows[k])[1].time <= ret.value.faresRows[i].validFrom.time
  /\ ret.value.faresRows[i].validFrom.time <= ret.value.faresRows[i].validTo.time
  /\ ret.value.faresRows[i].validTo.time <= WindowOf(call.rows[k])[2].time

\* C12: of a table whose rows have a boarding window that parses on both
\* ends, every record has wholeFrom <= validFrom <= validTo <= wholeTo for a
\* row of its places, and the records are exactly the non-empty parts of the
\* rows' periods inside their windows: a period with no such part leaves no
\* record and stops nothing
C12_RecordsInsideWindow ==
  (Loaded /\ \A k \in 1..Len(call.rows) : HasWindow(call.rows[k])) =>
    /\ \A i \in 1..Len(ret.value.faresRows) :
         \E k \in 1..Len(call.rows) : InsideRow(i, k)
    /\ RecordParts =
         UNION {RowParts(k) : k \in {j \in 1..Len(call.rows) : HasPlaces(call.rows[j])}}

\* the first row lost its first period and kept its second, and the row
\* after it produced its record
C12_Witness ==
  /\ Loaded
  /\ Len(call.rows) = 2
  /\ Len(PeriodsOfRow(1)) = 2
  /\ InsideWindow(PeriodsOfRow(1)[1], WindowOf(call.rows[1])) = null
  /\ Cardinality(RecordsOfRow(1)) = 1
  /\ call.rows[2] # call.rows[1]
  /\ Cardinality(RecordsOfRow(2)) = 1

\* the fare text of row k holds no digit
NoDigits(k) ==
  \A i \in 1..Len(CellOf(call.rows[k], L_fare)) :
     CellOf(call.rows[k], L_fare)[i] \notin DigitSet

\* C13: the fare of every record is an integer >= 0, and a row whose fare
\* text holds no number still gives its record, with fare 0
C13_FareNonNegative ==
  Loaded =>
    /\ \A i \in 1..Len(ret.value.faresRows) : ret.value.faresRows[i].fare \in Nat
    /\ \A k \in 1..Len(call.rows) :
         (HasPlaces(call.rows[k]) /\ NoDigits(k)) =>
           \E i \in 1..Len(ret.value.faresRows) :
              /\ ret.value.faresRows[i].fare = 0
              /\ ret.value.faresRows[i].from = trim(CellOf(call.rows[k], L_from))

\* the load of the call is over and its table had a row without origin or
\* destination
LoadedWithGap ==
  /\ call.fn = "load"
  /\ ret # NotReturned
  /\ \E k \in 1..Len(call.rows) : ~HasPlaces(call.rows[k])

\* C14: a row whose origin or destination is empty is skipped: the load does
\* not fail, the row gives no record, and every other row gives its records,
\* wherever the row is in the table
C14_EmptyPlaceRowSkipped ==
  LoadedWithGap =>
    /\ ret # Threw
    /\ \A i \in 1..Len(ret.value.faresRows) :
         ret.value.faresRows[i].from # <<>> /\ ret.value.faresRows[i].to # <<>>
    /\ \A k \in 1..Len(call.rows) :
         IF HasPlaces(call.rows[k])
         THEN RecordsOfRow(k) # {}
         ELSE \A i \in 1..Len(ret.value.faresRows) :
                ret.value.faresRows[i].fare # fareOf(CellOf(call.rows[k], L_fare))

(***************************************************************************)
(* Loads as a whole                                                        *)
(***************************************************************************)
\* a load ended in this step; it ended in the catch of its caller
LoadEnded == Cardinality(Pending(inflight')) < Cardinality(Pending(inflight))
LoadFailed == dbLoadMsg' \in FailedMsgs

\* the table a build with the arguments b yields when nothing is carried over
FreshTable(b) ==
  buildDBFromRows(EmptyDB, b.fareRows, b.sourceName, b.sourceUrl, b.aliasRows)

\* C15: a load that fails at any step leaves the records, the route index,
\* the places, the alias table and the meta as they were; a load that
\* succeeds replaces all of them by the output of its build
C15_LoadAllOrNothing ==
  [][LoadEnded =>
       IF LoadFailed THEN DB' = DB ELSE DB' = FreshTable(lastBuild')]_vars

\* the records, the route index, the places and the alias table of two tables
SameTables(a, b) ==
  /\ a.faresRows = b.faresRows
  /\ a.routeMap = b.routeMap
  /\ a.places = b.places
  /\ a.aliasToCanon = b.aliasToCanon

\* C16: whenever an event can run a search, the records, the route index,
\* the places and the alias table are all empty as at the start, or all the
\* output of one completed build, whatever loads are in flight
C16_TableOfOneBuild ==
  IF lastBuild = NoBuild
  THEN SameTables(DB, EmptyDB)
  ELSE SameTables(DB, FreshTable(lastBuild))

\* a search has run on a built table while the next load is in flight
C16_Witness ==
  /\ inflight # <<>>
  /\ lastBuild # NoBuild
  /\ Len(results) > 0
  /\ \E i \in 1..Len(results) : results[i].res.hit

(***************************************************************************)
(* parseDateLoose                                                          *)
(***************************************************************************)
ParsedDate == call.fn = "parseDateLoose" /\ ret # NotReturned

\* C17: a text in the format YYYY-MM-DD, YYYY/MM/DD, YYYY/MM (day 1), M/D or
\* M-D (current year) gives the date with the year, month and day it is
\* written from; every other text, the empty text too, gives null
C17_DateFormats ==
  ParsedDate =>
    IF call.written = <<>>
    THEN ret.value = null
    ELSE ret.value = newDate(call.written[1], call.written[2] - 1, call.written[3])

(***************************************************************************)
(* The periods of a row                                                    *)
(***************************************************************************)
Day(m, d) == newDate(2025, m - 1, d)
\* the periods the three sources give for the rows of SourceRows, by the
\* fare of the row: 100 the pair; 200 the two ranges as written; 300 the
\* boarding window; 400 nothing; 500 the boarding window; 600 the range;
\* 700 the pair
ClaimedPeriods(fare) ==
  CASE fare = 100 -> << <<Day(6, 1), Day(6, 10)>> >>
    [] fare = 200 -> << <<Day(7, 20), Day(7, 25)>>, <<Day(7, 1), Day(7, 5)>> >>
    [] fare = 300 -> << <<Day(5, 1), Day(5, 31)>> >>
    [] fare = 400 -> << >>
    [] fare = 500 -> << <<Day(8, 1), Day(8, 31)>> >>
    [] fare = 600 -> << <<Day(9, 5), Day(9, 10)>> >>
    [] fare = 700 -> << <<Day(10, 1), Day(10, 10)>> >>

SourceLoaded == Loaded /\ \A k \in 1..Len(call.rows) : call.rows[k] \in SourceRows
\* the windows of the records with the fare, in the order of the table
WithFare(fare) == SelectSeq(ret.value.faresRows, LAMBDA r : r.fare = fare)
RecordPeriods(fare) ==
  [i \in 1..Len(WithFare(fare)) |->
     <<WithFare(fare)[i].validFrom, WithFare(fare)[i].validTo>>]
FareOfRow(k) == fareOf(CellOf(call.rows[k], L_fare))

\* C18: the periods of a row are the explicit pair when both ends parse,
\* else the well-formed segments of the range column in written order, else
\* the boarding window; a row with none of them leaves no record
C18_PeriodSources ==
  SourceLoaded =>
    \A k \in 1..Len(call.rows) :
       RecordPeriods(FareOfRow(k)) = ClaimedPeriods(FareOfRow(k))

\* a row gave its two ranges in written order, the later one first, and the
\* row after it gave no record
C18_Witness ==
  /\ SourceLoaded
  /\ Len(call.rows) = 2
  /\ Len(RecordPeriods(FareOfRow(1))) = 2
  /\ RecordPeriods(FareOfRow(1))[1][1].time > RecordPeriods(FareOfRow(1))[2][1].time
  /\ FareOfRow(2) # FareOfRow(1)
  /\ RecordPeriods(FareOfRow(2)) = <<>>

(***************************************************************************)
(* canonicalKey                                                            *)
(***************************************************************************)
\* the fields in their fixed order
FieldOrder ==
  <<K_from, K_to, K_fare, K_priceType, K_wholeFrom, K_wholeTo, K_validFrom,
    K_validTo, K_validRange, K_alias, K_canonical, K_rule>>
\* the fields with a synonym (compared in its normalised form) inside the
\* normalised label nk, by their place in the order
Matching(nk) ==
  {i \in 1..Len(FieldOrder) :
     \E j \in 1..Len(KeyRules[i][1]) : Includes(nk, normHeaderKey(KeyRules[i][1][j]))}
Least(S) == CHOOSE i \in S : \A j \in S : i <= j
KeyReturned == call.fn = "canonicalKey" /\ ret # NotReturned

\* C19: canonicalKey returns the first field, in the order from, to, fare,
\* priceType, wholeFrom, wholeTo, validFrom, validTo, validRange, alias,
\* canonical, rule, with a synonym inside the normalised label, and the
\* normalised label itself when no field has one
C19_FirstFieldInOrder ==
  KeyReturned =>
    /\ Len(KeyRules) = Len(FieldOrder)
    /\ ret.value = IF Matching(normHeaderKey(call.k)) = {}
                   THEN normHeaderKey(call.k)
                   ELSE FieldOrder[Least(Matching(normHeaderKey(call.k)))]

\* a label with synonyms of several fields got the earliest of them, which
\* is not the field the label spells
C19_Witness ==
  /\ KeyReturned
  /\ call.k = A_validFrom
  /\ Cardinality(Matching(normHeaderKey(call.k))) > 1
  /\ ret.value = K_from

(***************************************************************************)
(* normalizeRowKeys                                                        *)
(***************************************************************************)
RowReturned == call.fn = "normalizeRowKeys" /\ ret # NotReturned
\* the columns of the row that map to the field, and those of them with a
\* value that is not empty once trimmed
ColumnsOf(field) == {i \in 1..Len(call.row) : canonicalKey(call.row[i][1]) = field}
FilledOf(field) == {i \in ColumnsOf(field) : trim(call.row[i][2]) # <<>>}

\* C20: the normalised row has one value for each field a column maps to:
\* the first value in column order that is not empty, and the empty value
\* when every column of the field is empty
C20_FirstNonEmptyKept ==
  RowReturned =>
    /\ DOMAIN ret.value = {canonicalKey(call.row[i][1]) : i \in 1..Len(call.row)}
    /\ \A field \in DOMAIN ret.value :
         ret.value[field] = IF FilledOf(field) = {} THEN <<>>
                            ELSE trim(call.row[Least(FilledOf(field))][2])

\* three columns map to the origin: the first is empty, the second and the
\* third hold different values, and the second was kept
C20_Witness ==
  /\ RowReturned
  /\ Cardinality(ColumnsOf(K_from)) = 3
  /\ Cardinality(FilledOf(K_from)) = 2
  /\ Least(ColumnsOf(K_from)) \notin FilledOf(K_from)
  /\ ret.value[K_from] = P_Tokyo
  /\ \E i \in FilledOf(K_from) : trim(call.row[i][2]) = P_Naha

(***************************************************************************)
(* The alias table                                                         *)
(***************************************************************************)
BuildReturned == call.fn = "buildDBFromRows" /\ ret # NotReturned
Greatest(S) == CHOOSE i \in S : \A j \in S : j <= i
\* alias and canonical of row i of the alias sheet
AliasOf(i) == trim(CellOf(call.aliasRows[i], L_alias))
CanonOf(i) == trim(CellOf(call.aliasRows[i], L_canonical))
\* the place p without a final 都, 道, 府, 県 and without a final 空港
Stripped(p) ==
  ((IF p[Len(p)] \in {"u90FD", "u9053", "u5E9C", "u770C"}
    THEN {Slice(p, 1, Len(p) - 1)} ELSE {})
   \cup (IF EndsWith(p, <<"u7A7A", "u6E2F">>) THEN {Slice(p, 1, Len(p) - 2)} ELSE {}))
  \ {<<>>}
\* where the key k can come from: the alias rows with alias and canonical,
\* the places, the stripped places, the common names of a known place
ExplicitFor(k) ==
  {i \in 1..Len(call.aliasRows) :
     AliasOf(i) # <<>> /\ CanonOf(i) # <<>> /\ normKey(AliasOf(i)) = k}
SelfFor(k) ==
  {i \in 1..Len(ret.value.places) : normKey(ret.value.places[i]) = k}
VariantFor(k) ==
  {i \in 1..Len(ret.value.places) :
     \E v \in Stripped(ret.value.places[i]) : normKey(v) = k}
CommonFor(k) ==
  {j \in 1..Len(CommonAliases) :
     /\ normKey(CommonAliases[j][1]) = k
     /\ \E i \in 1..Len(ret.value.places) : ret.value.places[i] = CommonAliases[j][2]}
HasSource(k) ==
  ExplicitFor(k) # {} \/ SelfFor(k) # {} \/ VariantFor(k) # {} \/ CommonFor(k) # {}
\* v is what the key k is to map to
MapsAsClaimed(k, v) ==
  IF ExplicitFor(k) # {} THEN v = CanonOf(Greatest(ExplicitFor(k)))
  ELSE IF SelfFor(k) # {} THEN \E i \in SelfFor(k) : v = ret.value.places[i]
  ELSE IF VariantFor(k) # {} THEN v = ret.value.places[Least(VariantFor(k))]
  ELSE v = CommonAliases[Least(CommonFor(k))][2]

\* C21: every key of the alias table maps to the canonical of the last
\* alias row with that key; without such a row to a place with that key;
\* without such a place to the first place a stripped form of which has the
\* key; without that to the known place the common name stands for; and the
\* table has no other key
C21_AliasPrecedence ==
  BuildReturned =>
    \A e \in 1..Len(ret.value.aliasToCanon) :
       /\ HasSource(ret.value.aliasToCanon[e][1])
       /\ MapsAsClaimed(ret.value.aliasToCanon[e][1], ret.value.aliasToCanon[e][2])

\* a place kept its own key although another place strips to it, and two
\* alias rows with one key replaced a common name, the second row winning
C21_Witness ==
  /\ BuildReturned
  /\ \E e \in 1..Len(ret.value.aliasToCanon) :
        /\ SelfFor(ret.value.aliasToCanon[e][1]) # {}
        /\ VariantFor(ret.value.aliasToCanon[e][1]) # {}
        /\ ExplicitFor(ret.value.aliasToCanon[e][1]) = {}
  /\ \E e \in 1..Len(ret.value.aliasToCanon) :
        /\ Cardinality(ExplicitFor(ret.value.aliasToCanon[e][1])) = 2
        /\ CommonFor(ret.value.aliasToCanon[e][1]) # {}
        /\ CanonOf(1) # CanonOf(2)
        /\ ret.value.aliasToCanon[e][2] = CanonOf(2)

(***************************************************************************)
(* The lookup of the older copy                                            *)
(***************************************************************************)
\* findFare of src/unnamed/part_000 ended, by a return or by an exception
FareLookedUp == call.fn = "findFare" /\ ret # NotReturned
\* the places the lookup resolved its arguments to
LookupFrom == resolvePlaceOld(TableOfRows(call.rows).aliasToCanon, call.from)
LookupTo == resolvePlaceOld(TableOfRows(call.rows).aliasToCanon, call.to)
\* the route index of the call has an entry for the forward key, for the
\* reverse key
HasForward ==
  MapHas(TableOfRows(call.rows).routeMap,
         normKey(LookupFrom) \o RouteSep \o normKey(LookupTo))
HasReverse ==
  MapHas(TableOfRows(call.rows).routeMap,
         normKey(LookupTo) \o RouteSep \o normKey(LookupFrom))

\* C22: in src/unnamed/part_000, a lookup of a pair for which the route
\* index has no forward entry or no reverse entry does not raise, and with
\* neither entry it returns a result with hit = FALSE
C22_MissIsData ==
  FareLookedUp /\ (~HasForward \/ ~HasReverse) =>
    /\ ret # Threw
    /\ (~HasForward /\ ~HasReverse) => ret.value.hit = FALSE

(***************************************************************************)
(* The records of a built table, looked up by their own names              *)
(***************************************************************************)
\* findFare on the returned table
FoundIn(t, d, from, to) == findFareIn(t.aliasToCanon, t.routeMap, d, from, to)
\* record r of table t is hit by its own names on the first and on the last
\* day of its window
HitByOwnNames(t, r) ==
  /\ FoundIn(t, r.validFrom, r.from, r.to).hit
  /\ FoundIn(t, r.validTo, r.from, r.to).hit

\* C23: for every record r of a built table and a date d inside r's window,
\* findFare(d, r.from, r.to) is a hit, whatever alias rows came with the
\* table
C23_RecordsReachable ==
  BuildReturned =>
    \A i \in 1..Len(ret.value.faresRows) :
      HitByOwnNames(ret.value, ret.value.faresRows[i])

\* C24: canonicalKey gives each of the twelve canonical field names, used
\* literally as a column label, that same field
C24_CanonicalNamesKept ==
  KeyReturned /\ call.k \in CanonicalNames => ret.value = call.k

(***************************************************************************)
(* Ranges that overlap the boarding window as written                      *)
(***************************************************************************)
\* alignToWholeRange returned for a range with from <= to and a window, and
\* the range as written has a day in common with the window
OverlapsAsWritten ==
  /\ call.fn = "alignToWholeRange"
  /\ ret # NotReturned
  /\ isDate(call.wholeFrom) /\ isDate(call.wholeTo)
  /\ call.pFrom.time <= call.pTo.time
  /\ call.pFrom.time <= call.wholeTo.time
  /\ call.wholeFrom.time <= call.pTo.time
\* the date d has the year of the window start w and a month before w's
EarlyIn(d, w) == getFullYear(d) = getFullYear(w) /\ getMonth(d) < getMonth(w)
\* no end of the range of the call is moved: the window lies in one year, or
\* neither end is early in the window's start year
WrittenAsMeant ==
  \/ getFullYear(call.wholeTo) <= getFullYear(call.wholeFrom)
  \/ ~EarlyIn(call.pFrom, call.wholeFrom) /\ ~EarlyIn(call.pTo, call.wholeFrom)

\* C25: alignToWholeRange gives a range, not null, for every range with
\* from <= to that as written has a day in common with the boarding window
C25_OverlapKept == OverlapsAsWritten => ret.value # null

\* C25, amended: a range with from <= to that as written has a day in common
\* with the boarding window is kept, as its part inside the window, when the
\* window lies in one calendar year or no end of the range has the window's
\* start year and a month before its start month
C25_OverlapKeptUnmoved ==
  OverlapsAsWritten /\ WrittenAsMeant =>
    ret.value = [from |-> Later(call.pFrom, call.wholeFrom),
                 to |-> Earlier(call.pTo, call.wholeTo)]

\* a range across the start of a window that crosses the year was cut to
\* its part inside the window
C25_Witness ==
  /\ OverlapsAsWritten /\ WrittenAsMeant /\ CrossingCall
  /\ ret.value # null
  /\ ret.value.from = call.wholeFrom
  /\ ret.value.from # call.pFrom

(***************************************************************************)
(* The route index and the counts of the active table                      *)
(***************************************************************************)
\* the places <<k, j>> of the route index of table t that hold the record r
PlacesOf(t, r) ==
  {kj \in (1..Len(t.routeMap)) \X (1..Len(t.faresRows)) :
     /\ kj[2] <= Len(t.routeMap[kj[1]][2])
     /\ t.routeMap[kj[1]][2][kj[2]] = r}
\* record r is in the index once, under its own key
IndexedOnce(t, r) ==
  /\ Cardinality(PlacesOf(t, r)) = 1
  /\ \A kj \in PlacesOf(t, r) : t.routeMap[kj[1]][1] = routeKey(r)
\* the lists of the index are not empty and hold records of the table only
ListsOfRecords(t) ==
  \A k \in 1..Len(t.routeMap) :
    /\ t.routeMap[k][2] # <<>>
    /\ \A j \in 1..Len(t.routeMap[k][2]) :
         \E i \in 1..Len(t.faresRows) : t.faresRows[i] = t.routeMap[k][2][j]
\* the keys of the index are distinct
KeysDistinct(t) ==
  \A k, l \in 1..Len(t.routeMap) : t.routeMap[k][1] = t.routeMap[l][1] => k = l
CountsRight(t) ==
  /\ t.meta.fares = Len(t.faresRows)
  /\ t.meta.routes = Len(t.routeMap)
  /\ t.meta.places = Len(t.places)

\* a load or a build returned a table
TableReturned ==
  call.fn \in {"load", "buildDBFromRows"} /\ ret # NotReturned /\ ret # Threw
Partitioned(t) ==
  /\ \A i \in 1..Len(t.faresRows) : IndexedOnce(t, t.faresRows[i])
  /\ ListsOfRecords(t)
  /\ KeysDistinct(t)

\* C27: in the table of a build, and in the table as reset, every record is
\* in the route index exactly once, in the list under
\* normKey(from)||normKey(to); no list is empty; and meta.fares, meta.routes
\* and meta.places are the numbers of records, of index keys and of places
C27_IndexPartitions ==
  /\ Partitioned(DB) /\ CountsRight(DB)
  /\ TableReturned => Partitioned(ret.value) /\ CountsRight(ret.value)

\* a table with more than one key and a list of more than one record
C27_Witness ==
  /\ TableReturned
  /\ Len(ret.value.routeMap) > 1
  /\ \E k \in 1..Len(ret.value.routeMap) : Len(ret.value.routeMap[k][2]) > 1

(***************************************************************************)
(* The results on display                                                  *)
(***************************************************************************)
\* C28: after every handler the displayed results are findFare of each
\* current leg, in leg order, against the active table, and there are none
\* when the active table has no records or there are no legs
C28_ResultsCurrent == results = runSearch(DB, legs)

(***************************************************************************)
(* Loads that overlap                                                      *)
(***************************************************************************)
\* the source labels a load of the kind can give its table (lines 849, 858,
\* 879)
SourceLabels(kind) ==
  IF kind = "remote" THEN {"transport.csv", "fare_source.tsv"} ELSE {"local:file"}
\* the second of two loads was started while the first waited; in this step
\* the last of them ends, and neither has thrown
BothEndedWell ==
  /\ Len(inflight) = 2
  /\ inflight' = <<>>
  /\ \A i \in 1..2 : inflight[i].state # "failed"
  /\ dbLoadMsg' \notin FailedMsgs

\* C26: when a second load was started while the first waited and both have
\* ended, the active table and its source label are those of the second
\* load: its build is the last one when it ends last, and the table it left
\* stays when the first load ends after it
C26_LastStartedWins ==
  [][BothEndedWell =>
       /\ DB'.meta.source \in SourceLabels(inflight[2].kind)
       /\ inflight[2].state = "ok" => DB' = DB]_vars

====
